---- MODULE Spec2Model ----
(***************************************************************************)
(* Model of the template / export / store pipeline of the Attribute        *)
(* Configuration Assistant (class AvevaAttributeConfig, src/sw.js).        *)
(*                                                                         *)
(* JavaScript strings are modelled as sequences of one-character strings,  *)
(* so that quoting, escaping, substring search and line counting are       *)
(* computed character by character.                                        *)
(***************************************************************************)
EXTENDS Integers, Sequences, FiniteSets, TLC

VARIABLES
    now,                 \* the value Date.now() returns (milliseconds)
    templateName,        \* value of #templateName
    templateCategory,    \* value of #templateCategory
    templateDescription, \* value of #templateDescription
    attributeRows,       \* the .attribute-row elements, in document order
    savedConfigs,        \* this.savedConfigs
    configsGrid,         \* the cards rendered inside #configsGrid
    configSearch,        \* value of #configSearch
    toast,               \* arguments of the last showToast call
    download,            \* the file handed to downloadFile by the last step
    attributes,          \* this.attributes
    validationResults,   \* the items rendered in the four validation lists
    validationScore,     \* text of #validationScore
    criticalIssues,      \* text of #criticalIssues
    warningsCount,       \* text of #warningsCount
    fixedIssues,         \* text of #fixedIssues
    pendingTimeouts,     \* callbacks handed to setTimeout and not yet run
    buttonLoading,       \* a button with feedback shows "Processing..."
    referenceGrid,       \* the cards rendered inside #referenceGrid
    activeFilter,        \* data-filter of the active .filter-tab
    referenceSearch,     \* value of #referenceSearch
    currentWizardStep,   \* this.currentWizardStep
    currentDataTypeStep, \* this.currentDataTypeStep
    selectedUseCase,     \* this.selectedUseCase
    recommendedType,     \* text of #recommendedType
    swState,             \* where the service worker is in its life cycle
    skipWaitingCalled,   \* self.skipWaiting() has been called
    cacheStorage,        \* caches: cache name -> URLs with a stored response
    pendingDeletes,      \* caches.delete calls of activate not yet settled
    clientsClaimed,      \* self.clients.claim() has been called
    online,              \* the network can be reached
    fetchResult,         \* what the last fetch event led to
    toastShown,          \* #toast carries the class 'show'
    toastTimers,         \* timers of showToast and runValidation, with the
                         \* time left until each is due
    toastAge,            \* time since the last showToast call
    searchField,         \* value of each search input
    searchTimeout,       \* timers set by each input and not yet run: time left
    sinceInput,          \* time since the last input event of each input
    lastQuery,           \* the last performSearch call, and how many ran
    inputCount,          \* number of input events so far
    eventListeners,      \* this.eventListeners: listener id -> handler
    attachedHandlers,    \* wrapped handlers attached to their elements
    handlersCreated,     \* number of wrapped handlers created so far
    userInput,           \* the argument of sanitizeInput
    sanitized            \* the value sanitizeInput returned for it

validatorVars ==
    <<validationResults, validationScore, criticalIssues, warningsCount,
      fixedIssues>>

timerVars == <<pendingTimeouts, buttonLoading>>

catalogVars == <<referenceGrid, activeFilter, referenceSearch>>

\* What the template generator and the store leave alone.
wizardVars ==
    <<currentWizardStep, currentDataTypeStep, selectedUseCase,
      recommendedType>>

workerVars ==
    <<swState, skipWaitingCalled, cacheStorage, pendingDeletes,
      clientsClaimed, online, fetchResult>>

toastVars == <<toastShown, toastTimers, toastAge>>

debounceVars ==
    <<searchField, searchTimeout, sinceInput, lastQuery, inputCount>>

registryVars == <<eventListeners, attachedHandlers, handlersCreated>>

sanitizeVars == <<userInput, sanitized>>

shellVars ==
    <<wizardVars, workerVars, toastVars, debounceVars, registryVars,
      sanitizeVars>>

panelVars ==
    <<attributes, validatorVars, timerVars, catalogVars, shellVars>>

vars == <<now, templateName, templateCategory, templateDescription,
          attributeRows, savedConfigs, configsGrid, configSearch, toast,
          download, panelVars>>

(***************************************************************************)
(* Bounds of the model.                                                    *)
(***************************************************************************)
MaxClock == 1

MaxRows == 2

MaxSaved == 2

(***************************************************************************)
(* Characters and the strings the inputs are drawn from.                   *)
(***************************************************************************)
QUOTE == "\""

LF == "\n"

CR == "\r"

BACKSLASH == "\\"

S_PumpA == <<"P", "u", "m", "p", "A">>

S_pumpA == <<"p", "u", "m", "p", "A">>

S_Flow == <<"F", "l", "o", "w">>

S_analog == <<"a", "n", "a", "l", "o", "g">>

S_template == <<"t", "e", "m", "p", "l", "a", "t", "e">>

S_DI == <<"D", "I">>

S_AI == <<"A", "I">>

\* Text a user may type or paste into a field (before the field keeps it).
\* S_pumpA is a name that is not PascalCase.
NameInputs == {<<>>, S_pumpA}

CategoryInputs == {<<>>, S_analog}

DescriptionInputs == {<<>>, <<"d", LF, BACKSLASH>>}

AttrNameInputs == {<<>>, S_Flow}

AttrTypeInputs == {S_DI, S_AI}

AttrDescriptionInputs == {<<>>, <<"r", QUOTE>>, <<"a", LF, "b">>}

SearchInputs == {<<>>, S_PumpA, <<"z">>}

ConfigIds == 0..(MaxClock + 1)

NoToast == [message |-> <<>>, type |-> "none"]

NoFile == [format |-> "none", content |-> <<>>, filename |-> <<>>, type |-> ""]

(***************************************************************************)
(* Generic string helpers.                                                 *)
(***************************************************************************)
RECURSIVE Flatten(_)
Flatten(ss) ==
    IF Len(ss) = 0 THEN <<>> ELSE Head(ss) \o Flatten(Tail(ss))

RECURSIVE Join(_, _)
Join(parts, sep) ==
    IF Len(parts) = 0 THEN <<>>
    ELSE IF Len(parts) = 1 THEN Head(parts)
    ELSE Head(parts) \o sep \o Join(Tail(parts), sep)

UpperCaseLetters ==
    <<"A", "B", "C", "D", "E", "F", "G", "H", "I", "J", "K", "L", "M",
      "N", "O", "P", "Q", "R", "S", "T", "U", "V", "W", "X", "Y", "Z">>

LowerCaseLetters ==
    <<"a", "b", "c", "d", "e", "f", "g", "h", "i", "j", "k", "l", "m",
      "n", "o", "p", "q", "r", "s", "t", "u", "v", "w", "x", "y", "z">>

IsUpperCase(c) == \E i \in 1..26 : UpperCaseLetters[i] = c

ToLowerCase(s) ==
    [k \in 1..Len(s) |->
        IF IsUpperCase(s[k])
        THEN LowerCaseLetters[CHOOSE i \in 1..26 : UpperCaseLetters[i] = s[k]]
        ELSE s[k]]

IsNewline(c) == c = LF \/ c = CR

\* <input type="text">: the value never holds LF or CR (the field strips
\* them from whatever is typed, pasted or assigned).
InputTextValue(raw) == SelectSeq(raw, LAMBDA c : ~IsNewline(c))

(***************************************************************************)
(* Form collector.                                                         *)
(***************************************************************************)
\* A row as created by addAttributeRow: empty name, first option selected.
NewAttributeRow == [name |-> <<>>, type |-> S_DI, description |-> <<>>]

\* Variant: every row is collected.
RowCollected_Always(row) == TRUE

RowCollected(row) == Len(row.name) > 0 /\ Len(row.type) > 0

collectTemplateData ==
    [name |-> templateName,
     category |-> templateCategory,
     description |-> templateDescription,
     attributes |-> SelectSeq(attributeRows, RowCollected)]

(***************************************************************************)
(* Validator: loadValidationData.                                          *)
(***************************************************************************)
Finding(list, item, status) ==
    [list |-> list, item |-> item, status |-> status]

namingResults ==
    << Finding("namingValidationList",
               "Template names follow PascalCase convention", "success"),
       Finding("namingValidationList",
               "Attribute names use camelCase pattern", "success"),
       Finding("namingValidationList",
               "No reserved words used in naming", "warning"),
       Finding("namingValidationList",
               "Consistent prefix/suffix usage", "success") >>

bestPracticesResults ==
    << Finding("bestPracticesList",
               "Quality attributes included", "warning"),
       Finding("bestPracticesList",
               "Proper alarm thresholds defined", "success"),
       Finding("bestPracticesList",
               "Engineering units specified", "success"),
       Finding("bestPracticesList",
               "Historical data configuration complete", "success") >>

securityResults ==
    << Finding("securityValidationList",
               "Security classifications defined", "success"),
       Finding("securityValidationList",
               "Access levels properly assigned", "success"),
       Finding("securityValidationList",
               "No exposed sensitive attributes", "success"),
       Finding("securityValidationList",
               "Audit trail configuration", "warning") >>

performanceResults ==
    << Finding("performanceValidationList",
               "Data types optimized for performance", "success"),
       Finding("performanceValidationList",
               "Update frequencies appropriately set", "success"),
       Finding("performanceValidationList",
               "Database indexing considerations", "warning"),
       Finding("performanceValidationList",
               "Memory usage within limits", "success") >>

\* The findings of a run: the same four lists on every run.
ValidationData ==
    namingResults \o bestPracticesResults \o securityResults
        \o performanceResults

CountStatus(results, status) ==
    Cardinality({i \in 1..Len(results) : results[i].status = status})

\* Variant: no lower clamp.
Max_Unclamped(a, b) == b

Max(a, b) == IF a >= b THEN a ELSE b

\* Variant: a warning costs 10 points.
Score_WarningTen(critical, warnings) ==
    Max(0, 100 - (critical * 20) - (warnings * 10))

\* Math.max(0, 100 - (critical * 20) - (warnings * 5))
Score(critical, warnings) == Max(0, 100 - (critical * 20) - (warnings * 5))

\* let ... success = 16
SuccessCount == 16

\* Rendering of the lists and of the four counters for a list of findings.
ShowValidation(results) ==
    /\ validationResults' = results
    /\ criticalIssues' = CountStatus(results, "error")
    /\ warningsCount' = CountStatus(results, "warning")
    /\ validationScore' = Score(CountStatus(results, "error"),
                                CountStatus(results, "warning"))
    /\ fixedIssues' = SuccessCount

\* Variant: the lists are not cleared before the findings are rendered.
loadValidationData_Accumulates ==
    ShowValidation(validationResults \o ValidationData)

loadValidationData == ShowValidation(ValidationData)

(***************************************************************************)
(* Data of the service worker (top of src/sw.js).                          *)
(***************************************************************************)
CACHE_NAME == "aveva-config-production-v3.0.0"

\* Caches left behind by earlier versions of the worker: any other name.
OldCacheNames == {"aveva-config-production-v2.0.0", "aveva-config-v1"}

\* A URL is the sequence of the pieces of its text: self.location.origin or
\* another scheme and host, possibly more text of the host, then the path.
Origin == "https://app.example"

FontsOrigin == "https://fonts.googleapis.com"

UnpkgOrigin == "https://unpkg.com"

Paths ==
    {"/", "/index.html", "/styles.css", "/app.js", "/manifest.json",
     "/css2?family=Inter:wght@400;500;600&family=JetBrains+Mono:wght@400&display=swap",
     "/lucide@latest/dist/umd/lucide.js", "/api/data.json", "/logo.png"}

\* A relative URL of the worker resolves against self.location.
Resolve(path) == <<Origin, path>>

urlsToCache ==
    << Resolve("/"),
       Resolve("/index.html"),
       Resolve("/styles.css"),
       Resolve("/app.js"),
       Resolve("/manifest.json"),
       <<FontsOrigin,
         "/css2?family=Inter:wght@400;500;600&family=JetBrains+Mono:wght@400&display=swap">>,
       <<UnpkgOrigin, "/lucide@latest/dist/umd/lucide.js">> >>

Range(s) == {s[i] : i \in 1..Len(s)}

NoFetch ==
    [url |-> <<>>, method |-> "none", intercepted |-> FALSE,
     networkFetch |-> FALSE, response |-> "none", cached |-> FALSE]

\* The search inputs of the page.
SearchFields == {"search", "filter"}

\* Delays of setTimeout in showToast and runValidation, in units of 500 ms.
ToastDuration == 6

RunValidationDelay == 4

\* The delay of setTimeout in initializeSearch, in units of 100 ms.
DebounceDelay == 3

\* No call of performSearch yet.
NoQuery ==
    [runs |-> 0, field |-> "none", query |-> <<>>, sanitizedQuery |-> <<>>]

NotSanitized == [jstype |-> "pending", value |-> <<>>]

\* this.selectedUseCase = null: no use case, a name without pieces.
NoUseCase == <<>>

WizardInit ==
    /\ currentWizardStep = 1
    /\ currentDataTypeStep = 1
    /\ selectedUseCase = NoUseCase
    /\ recommendedType = ""

\* The worker script has been fetched and parsed; two caches of earlier
\* versions exist, each holding the page.
WorkerInit ==
    /\ swState = "parsed"
    /\ skipWaitingCalled = FALSE
    /\ cacheStorage = [name \in OldCacheNames |-> {Resolve("/index.html")}]
    /\ pendingDeletes = {}
    /\ clientsClaimed = FALSE
    /\ online = TRUE
    /\ fetchResult = NoFetch

ToastInit ==
    /\ toastShown = FALSE
    /\ toastTimers = <<>>
    /\ toastAge = ToastDuration

DebounceInit ==
    /\ searchField = [field \in SearchFields |-> <<>>]
    /\ searchTimeout = [field \in SearchFields |-> <<>>]
    /\ sinceInput = [field \in SearchFields |-> DebounceDelay]
    /\ lastQuery = NoQuery
    /\ inputCount = 0

RegistryInit ==
    /\ eventListeners = {}
    /\ attachedHandlers = {}
    /\ handlersCreated = 0

SanitizeIdle ==
    /\ userInput = [jstype |-> "string", value |-> <<>>]
    /\ sanitized = NotSanitized

ShellInit ==
    /\ WizardInit
    /\ WorkerInit
    /\ ToastInit
    /\ DebounceInit
    /\ RegistryInit
    /\ SanitizeIdle

(***************************************************************************)
(* Initial state: constructor of AvevaAttributeConfig, empty form; init()  *)
(* has rendered the validation data.                                       *)
(***************************************************************************)
Init ==
    /\ now = 0
    /\ templateName = <<>>
    /\ templateCategory = <<>>
    /\ templateDescription = <<>>
    /\ attributeRows = <<>>
    /\ savedConfigs = <<>>
    /\ configsGrid = <<>>
    /\ configSearch = <<>>
    /\ toast = NoToast
    /\ download = NoFile
    /\ attributes = <<>>
    /\ validationResults = ValidationData
    /\ criticalIssues = CountStatus(ValidationData, "error")
    /\ warningsCount = CountStatus(ValidationData, "warning")
    /\ validationScore = Score(CountStatus(ValidationData, "error"),
                               CountStatus(ValidationData, "warning"))
    /\ fixedIssues = SuccessCount
    /\ pendingTimeouts = <<>>
    /\ buttonLoading = FALSE
    /\ referenceGrid = <<>>
    /\ activeFilter = "all"
    /\ referenceSearch = <<>>
    /\ ShellInit

(***************************************************************************)
(* Form edits.                                                             *)
(***************************************************************************)
SetTemplateName(s) ==
    /\ templateName' = s
    /\ UNCHANGED panelVars
    /\ download' = NoFile
    /\ UNCHANGED <<now, templateCategory, templateDescription, attributeRows,
                   savedConfigs, configsGrid, configSearch, toast>>

SetTemplateCategory(c) ==
    /\ templateCategory' = c
    /\ UNCHANGED panelVars
    /\ download' = NoFile
    /\ UNCHANGED <<now, templateName, templateDescription, attributeRows,
                   savedConfigs, configsGrid, configSearch, toast>>

SetTemplateDescription(s) ==
    /\ templateDescription' = s
    /\ UNCHANGED panelVars
    /\ download' = NoFile
    /\ UNCHANGED <<now, templateName, templateCategory, attributeRows,
                   savedConfigs, configsGrid, configSearch, toast>>

\* Click on #addAttribute: addAttributeRow, then the toast.
AddAttribute ==
    /\ Len(attributeRows) < MaxRows
    /\ attributeRows' = Append(attributeRows, NewAttributeRow)
    /\ toast' = [message |-> <<"Attribute row added">>, type |-> "success"]
    /\ UNCHANGED panelVars
    /\ download' = NoFile
    /\ UNCHANGED <<now, templateName, templateCategory, templateDescription,
                   savedConfigs, configsGrid, configSearch>>

\* Click on a row's .attr-remove button.
RemoveAttributeRow(i) ==
    /\ i \in 1..Len(attributeRows)
    /\ attributeRows' = [j \in 1..(Len(attributeRows) - 1) |->
                            IF j < i THEN attributeRows[j]
                            ELSE attributeRows[j + 1]]
    /\ UNCHANGED panelVars
    /\ download' = NoFile
    /\ UNCHANGED <<now, templateName, templateCategory, templateDescription,
                   savedConfigs, configsGrid, configSearch, toast>>

SetAttrName(i, raw) ==
    /\ i \in 1..Len(attributeRows)
    /\ attributeRows' =
           [attributeRows EXCEPT ![i].name = InputTextValue(raw)]
    /\ UNCHANGED panelVars
    /\ download' = NoFile
    /\ UNCHANGED <<now, templateName, templateCategory, templateDescription,
                   savedConfigs, configsGrid, configSearch, toast>>

SetAttrType(i, t) ==
    /\ i \in 1..Len(attributeRows)
    /\ attributeRows' = [attributeRows EXCEPT ![i].type = t]
    /\ UNCHANGED panelVars
    /\ download' = NoFile
    /\ UNCHANGED <<now, templateName, templateCategory, templateDescription,
                   savedConfigs, configsGrid, configSearch, toast>>

SetAttrDescription(i, raw) ==
    /\ i \in 1..Len(attributeRows)
    /\ attributeRows' =
           [attributeRows EXCEPT ![i].description = InputTextValue(raw)]
    /\ UNCHANGED panelVars
    /\ download' = NoFile
    /\ UNCHANGED <<now, templateName, templateCategory, templateDescription,
                   savedConfigs, configsGrid, configSearch, toast>>

(***************************************************************************)
(* JSON.stringify(value, null, gap) on the collected record.               *)
(***************************************************************************)
K_name == <<"n", "a", "m", "e">>

K_category == <<"c", "a", "t", "e", "g", "o", "r", "y">>

K_description == <<"d", "e", "s", "c", "r", "i", "p", "t", "i", "o", "n">>

K_attributes == <<"a", "t", "t", "r", "i", "b", "u", "t", "e", "s">>

K_type == <<"t", "y", "p", "e">>

\* Variant: a double quote inside a string is not escaped.
EscapeJSONChar_QuoteUnescaped(c) ==
    IF c = BACKSLASH THEN <<BACKSLASH, BACKSLASH>>
    ELSE IF c = LF THEN <<BACKSLASH, "n">>
    ELSE IF c = CR THEN <<BACKSLASH, "r">>
    ELSE <<c>>

EscapeJSONChar(c) ==
    IF c = QUOTE THEN <<BACKSLASH, QUOTE>>
    ELSE IF c = BACKSLASH THEN <<BACKSLASH, BACKSLASH>>
    ELSE IF c = LF THEN <<BACKSLASH, "n">>
    ELSE IF c = CR THEN <<BACKSLASH, "r">>
    ELSE <<c>>

QuoteJSONString(s) ==
    <<QUOTE>> \o Flatten([i \in 1..Len(s) |-> EscapeJSONChar(s[i])])
              \o <<QUOTE>>

Spaces(n) == [i \in 1..n |-> " "]

\* One "key": value member; a space follows the colon when a gap is given.
SerializeJSONProperty(key, valueText, gap) ==
    QuoteJSONString(key) \o <<":">>
        \o (IF gap > 0 THEN <<" ">> ELSE <<>>) \o valueText

\* Members or elements between the brackets open and close, at nesting
\* depth level (the enclosing bracket's depth).
SerializeJSONList(open, close, partial, gap, level) ==
    IF Len(partial) = 0 THEN <<open, close>>
    ELSE IF gap = 0 THEN <<open>> \o Join(partial, <<",">>) \o <<close>>
    ELSE <<open, LF>> \o Spaces(gap * (level + 1))
         \o Join(partial, <<",", LF>> \o Spaces(gap * (level + 1)))
         \o <<LF>> \o Spaces(gap * level) \o <<close>>

SerializeAttribute(attr, gap, level) ==
    SerializeJSONList("{", "}",
        << SerializeJSONProperty(K_name, QuoteJSONString(attr.name), gap),
           SerializeJSONProperty(K_type, QuoteJSONString(attr.type), gap),
           SerializeJSONProperty(K_description,
                                 QuoteJSONString(attr.description), gap) >>,
        gap, level)

JSONStringify(data, gap) ==
    SerializeJSONList("{", "}",
        << SerializeJSONProperty(K_name, QuoteJSONString(data.name), gap),
           SerializeJSONProperty(K_category,
                                 QuoteJSONString(data.category), gap),
           SerializeJSONProperty(K_description,
                                 QuoteJSONString(data.description), gap),
           SerializeJSONProperty(K_attributes,
               SerializeJSONList("[", "]",
                   [i \in 1..Len(data.attributes) |->
                       SerializeAttribute(data.attributes[i], gap, 2)],
                   gap, 1),
               gap) >>,
        gap, 0)

(***************************************************************************)
(* Store: saveTemplate, deleteConfig, filterSavedConfigs.                  *)
(***************************************************************************)
\* Date.now() advances between two events, or does not.
Tick ==
    /\ now < MaxClock
    /\ now' = now + 1
    /\ UNCHANGED panelVars
    /\ download' = NoFile
    /\ UNCHANGED <<templateName, templateCategory, templateDescription,
                   attributeRows, savedConfigs, configsGrid, configSearch,
                   toast>>

\* Variant: the name check also demands a PascalCase name.
SaveBlockedByName_PascalCase(templateData) ==
    \/ Len(templateData.name) = 0
    \/ ~IsUpperCase(Head(templateData.name))

\* The two early returns of saveTemplate, in the order the code tests them.
SaveBlockedByName(templateData) == Len(templateData.name) = 0

\* Variant: the attribute check is missing.
SaveBlockedByAttributes_Missing(templateData) == FALSE

SaveBlockedByAttributes(templateData) == Len(templateData.attributes) = 0

\* (length / 1024).toFixed(1), in tenths of a KB: 1 stands for "0.1 KB".
SizeTenthsKB(length) == (20 * length + 1024) \div 2048

JSNumber(n) == [jstype |-> "number", value |-> n]

JSArray(a) == [jstype |-> "array", value |-> a]

NewConfig(templateData, clock) ==
    [id |-> clock,                       \* `template-${Date.now()}`
     name |-> templateData.name,
     category |-> templateData.category,
     description |-> templateData.description,
     attributes |-> JSNumber(Len(templateData.attributes)),
     lastModified |-> clock,
     size |-> SizeTenthsKB(Len(JSONStringify(templateData, 0)))]

\* Variant: push instead of unshift.
Unshift_Push(list, item) == Append(list, item)

Unshift(list, item) == <<item>> \o list

SaveTemplate ==
    LET templateData == collectTemplateData IN
    /\ UNCHANGED panelVars
    /\ download' = NoFile
    /\ IF SaveBlockedByName(templateData)
       THEN /\ toast' = [message |-> <<"Please enter a template name">>,
                         type |-> "error"]
            /\ UNCHANGED savedConfigs
       ELSE IF SaveBlockedByAttributes(templateData)
       THEN /\ toast' = [message |-> <<"Please add at least one attribute">>,
                         type |-> "error"]
            /\ UNCHANGED savedConfigs
       ELSE /\ Len(savedConfigs) < MaxSaved
            /\ savedConfigs' =
                   Unshift(savedConfigs, NewConfig(templateData, now))
            /\ toast' = [message |-> <<"Template ", templateData.name,
                                       " saved successfully">>,
                         type |-> "info"]
    /\ UNCHANGED <<now, templateName, templateCategory, templateDescription,
                   attributeRows, configsGrid, configSearch>>

RemoveById(list, configId) ==
    SelectSeq(list, LAMBDA config : config.id # configId)

\* deleteConfig(configId); confirmed is the answer given to confirm().
DeleteConfig(configId, confirmed) ==
    /\ UNCHANGED panelVars
    /\ download' = NoFile
    /\ IF confirmed
       THEN /\ savedConfigs' = RemoveById(savedConfigs, configId)
            /\ configsGrid' = savedConfigs'      \* loadSavedConfigsData
            /\ toast' = [message |-> <<"Configuration deleted">>,
                         type |-> "success"]
       ELSE UNCHANGED <<savedConfigs, configsGrid, toast>>
    /\ UNCHANGED <<now, templateName, templateCategory, templateDescription,
                   attributeRows, configSearch>>

\* filterSavedConfigs(searchTerm) only logs the term: nothing is filtered.
FilterSavedConfigs(grid, searchTerm) == grid

\* input event on #configSearch.
ConfigSearchInput(searchTerm) ==
    /\ configSearch' = searchTerm
    /\ configsGrid' = FilterSavedConfigs(configsGrid, searchTerm)
    /\ UNCHANGED panelVars
    /\ download' = NoFile
    /\ UNCHANGED <<now, templateName, templateCategory, templateDescription,
                   attributeRows, savedConfigs, toast>>

Next ==
    \/ Tick
    \/ \E s \in NameInputs : SetTemplateName(s)
    \/ AddAttribute
    \/ \E i \in 1..MaxRows : RemoveAttributeRow(i)
    \/ \E i \in 1..MaxRows, raw \in AttrNameInputs : SetAttrName(i, raw)
    \/ SaveTemplate
    \/ \E configId \in ConfigIds, confirmed \in BOOLEAN :
           DeleteConfig(configId, confirmed)

Spec == Init /\ [][Next]_vars

\* C26: the cards of the saved-configurations grid are exactly the records
\* of the store, in the store's order, after every save and every remove.
C26_GridShowsStore == configsGrid = savedConfigs

\* The same operations, and the search field of the saved configurations.
NextLibrary ==
    \/ Next
    \/ \E searchTerm \in SearchInputs : ConfigSearchInput(searchTerm)

LibrarySpec == Init /\ [][NextLibrary]_vars

(***************************************************************************)
(* Serializer: downloadExport.                                             *)
(***************************************************************************)
CSVHeader ==
    <<"N", "a", "m", "e", ",", "T", "y", "p", "e", ",",
      "D", "e", "s", "c", "r", "i", "p", "t", "i", "o", "n", LF>>

\* Variant: the row's line terminator is missing.
CSVRow_NoLineEnd(attr) ==
    <<QUOTE>> \o attr.name \o <<QUOTE, ",", QUOTE>> \o attr.type
        \o <<QUOTE, ",", QUOTE>> \o attr.description \o <<QUOTE>>

\* `"${attr.name}","${attr.type}","${attr.description}"\n`
CSVRow(attr) ==
    <<QUOTE>> \o attr.name \o <<QUOTE, ",", QUOTE>> \o attr.type
        \o <<QUOTE, ",", QUOTE>> \o attr.description \o <<QUOTE, LF>>

ToCSV(data) ==
    CSVHeader \o Flatten([i \in 1..Len(data.attributes) |->
                             CSVRow(data.attributes[i])])

\* `${data.name || 'template'}`
FileBaseName(data) == IF Len(data.name) = 0 THEN S_template ELSE data.name

ExportFormats == {"json", "csv", "xml"}

\* The switch of downloadExport: every format other than json and csv
\* takes the default branch.
ExportFile(data, format) ==
    IF format = "json"
    THEN [format |-> format,
          content |-> JSONStringify(data, 2),
          filename |-> <<FileBaseName(data), ".json">>,
          type |-> "application/json"]
    ELSE IF format = "csv"
    THEN [format |-> format,
          content |-> ToCSV(data),
          filename |-> <<FileBaseName(data), ".csv">>,
          type |-> "text/csv"]
    ELSE [format |-> format,
          content |-> JSONStringify(data, 2),
          filename |-> <<FileBaseName(data), ".xml">>,
          type |-> "application/xml"]

\* format is the value of the checked exportFormat radio button.
DownloadExport(format) ==
    /\ UNCHANGED panelVars
    /\ download' = ExportFile(collectTemplateData, format)
    /\ toast' = [message |-> <<"Template exported successfully">>,
                 type |-> "success"]
    /\ UNCHANGED <<now, templateName, templateCategory, templateDescription,
                   attributeRows, savedConfigs, configsGrid, configSearch>>

NextExport ==
    \/ \E s \in NameInputs : SetTemplateName(s)
    \/ \E c \in CategoryInputs : SetTemplateCategory(c)
    \/ \E s \in DescriptionInputs : SetTemplateDescription(s)
    \/ AddAttribute
    \/ \E i \in 1..MaxRows : RemoveAttributeRow(i)
    \/ \E i \in 1..MaxRows, raw \in AttrNameInputs : SetAttrName(i, raw)
    \/ \E i \in 1..MaxRows, t \in AttrTypeInputs : SetAttrType(i, t)
    \/ \E i \in 1..MaxRows, raw \in AttrDescriptionInputs :
           SetAttrDescription(i, raw)
    \/ \E format \in ExportFormats : DownloadExport(format)

ExportSpec == Init /\ [][NextExport]_vars

(***************************************************************************)
(* Vocabulary of the properties.                                           *)
(***************************************************************************)
StartsWithAt(text, i, word) ==
    /\ i + Len(word) - 1 <= Len(text)
    /\ \A k \in 1..Len(word) : text[i + k - 1] = word[k]

Includes(text, word) == \E i \in 1..(Len(text) + 1) : StartsWithAt(text, i, word)

Occurrences(text, word) ==
    Cardinality({i \in 1..Len(text) : StartsWithAt(text, i, word)})

\* Case-insensitive substring match over name, description and category.
ConfigMatches(config, searchText) ==
    LET word == ToLowerCase(searchText) IN
    \/ Includes(ToLowerCase(config.name), word)
    \/ Includes(ToLowerCase(config.description), word)
    \/ Includes(ToLowerCase(config.category), word)

\* The lines of a text: each LF ends a line; text after the last LF, if
\* any, is a line of its own.
RECURSIVE SplitLines(_, _)
SplitLines(text, line) ==
    IF Len(text) = 0
    THEN IF Len(line) = 0 THEN <<>> ELSE <<line>>
    ELSE IF Head(text) = LF
    THEN <<line>> \o SplitLines(Tail(text), <<>>)
    ELSE SplitLines(Tail(text), Append(line, Head(text)))

Lines(text) == SplitLines(text, <<>>)

\* A CSV reader (quoted fields, "" for a quote inside a quoted field).
MalformedCSV == << << <<"#malformed">> >> >>

RECURSIVE ParseCSVFrom(_, _, _, _, _, _)
ParseCSVFrom(text, i, mode, field, record, records) ==
    IF i > Len(text)
    THEN IF mode = "quoted" THEN MalformedCSV
         ELSE IF mode = "start" /\ Len(record) = 0 THEN records
         ELSE Append(records, Append(record, field))
    ELSE LET c == text[i] IN
         IF mode = "quoted"
         THEN IF c = QUOTE
              THEN ParseCSVFrom(text, i + 1, "afterQuote", field, record,
                                records)
              ELSE ParseCSVFrom(text, i + 1, "quoted", Append(field, c),
                                record, records)
         ELSE IF c = ","
         THEN ParseCSVFrom(text, i + 1, "start", <<>>,
                           Append(record, field), records)
         ELSE IF c = LF
         THEN ParseCSVFrom(text, i + 1, "start", <<>>, <<>>,
                           Append(records, Append(record, field)))
         ELSE IF c = QUOTE
         THEN IF mode = "start"
              THEN ParseCSVFrom(text, i + 1, "quoted", <<>>, record, records)
              ELSE IF mode = "afterQuote"
              THEN ParseCSVFrom(text, i + 1, "quoted", Append(field, QUOTE),
                                record, records)
              ELSE MalformedCSV
         ELSE IF mode = "afterQuote" THEN MalformedCSV
         ELSE ParseCSVFrom(text, i + 1, "unquoted", Append(field, c),
                           record, records)

ParseCSV(text) == ParseCSVFrom(text, 1, "start", <<>>, <<>>, <<>>)

S_Name == <<"N", "a", "m", "e">>

S_Type == <<"T", "y", "p", "e">>

S_Description ==
    <<"D", "e", "s", "c", "r", "i", "p", "t", "i", "o", "n">>

T_Template == <<"<", "T", "e", "m", "p", "l", "a", "t", "e">>

T_Attribute == <<"<", "A", "t", "t", "r", "i", "b", "u", "t", "e">>

\* The step is a call of saveTemplate that passes both early returns.
SaveAccepted ==
    /\ SaveTemplate
    /\ Len(collectTemplateData.name) > 0
    /\ Len(collectTemplateData.attributes) > 0

\* The step is a call of saveTemplate on an empty name or no attribute.
SaveRejected ==
    /\ SaveTemplate
    /\ \/ Len(collectTemplateData.name) = 0
       \/ Len(collectTemplateData.attributes) = 0

SavedToast(name) ==
    [message |-> <<"Template ", name, " saved successfully">>,
     type |-> "info"]

(***************************************************************************)
(* Properties of the Store.                                                *)
(***************************************************************************)
\* C1: a save of a record with an empty name or with no attribute is
\* rejected with an error toast and leaves savedConfigs exactly as it was.
C1_RejectedSaveLeavesStore ==
    [][SaveRejected => (savedConfigs' = savedConfigs
                        /\ toast'.type = "error")]_vars

\* A rejected save has run on a non-empty store.
C1_Witness == toast.type = "error" /\ Len(savedConfigs) > 0

\* C2: the records of the store have pairwise distinct ids, also when two
\* saves read the same Date.now().
C2_DistinctIds ==
    \A i, j \in 1..Len(savedConfigs) :
        i # j => savedConfigs[i].id # savedConfigs[j].id

\* C3: an accepted save puts the new record first, grows the store by one
\* and keeps every earlier record, unmodified and in order, behind it.
C3_SavePrepends ==
    [][SaveAccepted =>
          /\ Len(savedConfigs') = Len(savedConfigs) + 1
          /\ Head(savedConfigs') = NewConfig(collectTemplateData, now)
          /\ Tail(savedConfigs') = savedConfigs]_vars

\* An accepted save has put a record in front of a different one.
C3_Witness ==
    /\ Len(savedConfigs) >= 2
    /\ toast = SavedToast(savedConfigs[1].name)
    /\ savedConfigs[1] # savedConfigs[2]

\* C4: a confirmed deleteConfig(id) keeps every record with another id,
\* in order, removes exactly one record when the id is present and changes
\* nothing when it is absent.
C4_RemoveExactlyOne ==
    [][\A configId \in ConfigIds :
          DeleteConfig(configId, TRUE) =>
             LET present == \E i \in 1..Len(savedConfigs) :
                                savedConfigs[i].id = configId
             IN /\ savedConfigs' =
                       SelectSeq(savedConfigs,
                                 LAMBDA config : config.id # configId)
                /\ present => Len(savedConfigs') = Len(savedConfigs) - 1
                /\ ~present => savedConfigs' = savedConfigs]_vars

\* C5: a search for a text leaves on display exactly the saved records
\* whose name, description or category contains it, case-insensitively.
C5_FindReturnsMatches ==
    [][\A searchText \in SearchInputs :
          ConfigSearchInput(searchText) =>
             configsGrid' =
                 SelectSeq(savedConfigs,
                           LAMBDA config : ConfigMatches(config, searchText))
      ]_vars

\* C6: the record an accepted save stores carries the collected name,
\* category and description, and the collected attribute sequence itself.
C6_StoredRecordCarriesAttributes ==
    [][SaveAccepted =>
          LET stored == Head(savedConfigs')
              templateData == collectTemplateData
          IN /\ stored.name = templateData.name
             /\ stored.category = templateData.category
             /\ stored.description = templateData.description
             /\ stored.attributes.jstype = "array"
             /\ stored.attributes.value = templateData.attributes]_vars

\* C7: a save of a record with a name and at least one attribute is never
\* rejected: it adds one record and announces it, PascalCase name or not.
C7_SaveBlockedOnlyByNameOrAttributes ==
    [][(/\ SaveTemplate
        /\ Len(templateName) > 0
        /\ \E i \in 1..Len(attributeRows) : RowCollected(attributeRows[i]))
       => (/\ Len(savedConfigs') = Len(savedConfigs) + 1
           /\ toast' = SavedToast(templateName))]_vars

\* A record whose name is not PascalCase has been saved.
C7_Witness ==
    /\ Len(savedConfigs) > 0
    /\ savedConfigs[1].name = S_pumpA
    /\ toast = SavedToast(S_pumpA)

(***************************************************************************)
(* Properties of the Serializer.  After a download step the form still     *)
(* holds the record that was exported.                                     *)
(***************************************************************************)
\* C8: the XML export is element-nested XML: a Template element with one
\* Attribute element per attribute, never the JSON text of the record.
C8_XmlExportIsXml ==
    download.format = "xml" =>
        /\ StartsWithAt(download.content, 1, T_Template)
        /\ Occurrences(download.content, T_Attribute)
               = Len(collectTemplateData.attributes)
        /\ download.content # JSONStringify(collectTemplateData, 2)

\* C9: the CSV export of a record with attributes has the header line and
\* exactly one line per attribute.
C9_CsvLineCount ==
    (download.format = "csv" /\ Len(collectTemplateData.attributes) > 0) =>
        /\ Len(Lines(download.content))
               = Len(collectTemplateData.attributes) + 1
        /\ Lines(download.content)[1]
               = S_Name \o <<",">> \o S_Type \o <<",">> \o S_Description

\* A CSV export of MaxRows attributes, one description holding a double
\* quote and one entered with a line break in it.
C9_Witness ==
    /\ download.format = "csv"
    /\ Len(collectTemplateData.attributes) = MaxRows
    /\ \E i \in 1..Len(attributeRows) :
           /\ RowCollected(attributeRows[i])
           /\ Includes(attributeRows[i].description, <<QUOTE>>)
    /\ \E i \in 1..Len(attributeRows) :
           /\ RowCollected(attributeRows[i])
           /\ attributeRows[i].description = InputTextValue(<<"a", LF, "b">>)

\* C10: the CSV export reads back as the header followed by one record per
\* attribute of exactly three fields: its name, type and description.
C10_CsvRowsParseBack ==
    download.format = "csv" =>
        ParseCSV(download.content) =
            <<  <<S_Name, S_Type, S_Description>> >> \o
            [i \in 1..Len(collectTemplateData.attributes) |->
                LET attr == collectTemplateData.attributes[i]
                IN <<attr.name, attr.type, attr.description>>]

(***************************************************************************)
(* A JSON reader (JSON.parse restricted to strings, arrays and objects),   *)
(* used to state the round trip of the JSON export.                        *)
(***************************************************************************)
TAB == "\t"

At(text, i) == IF i \in 1..Len(text) THEN text[i] ELSE ""

IsWhitespace(c) == c = " " \/ c = LF \/ c = CR \/ c = TAB

RECURSIVE SkipWhitespace(_, _)
SkipWhitespace(text, i) ==
    IF IsWhitespace(At(text, i)) THEN SkipWhitespace(text, i + 1) ELSE i

ParseFailure == [ok |-> FALSE, v |-> [kind |-> "error", value |-> <<>>],
                 i |-> 0]

ParseSuccess(kind, value, i) ==
    [ok |-> TRUE, v |-> [kind |-> kind, value |-> value], i |-> i]

\* i is the position after the opening quote.
RECURSIVE ParseJSONString(_, _, _)
ParseJSONString(text, i, acc) ==
    LET c == At(text, i)
        e == At(text, i + 1)
    IN IF c = "" \/ IsNewline(c) \/ c = TAB THEN ParseFailure
       ELSE IF c = QUOTE THEN ParseSuccess("string", acc, i + 1)
       ELSE IF c # BACKSLASH
       THEN ParseJSONString(text, i + 1, Append(acc, c))
       ELSE IF e = QUOTE \/ e = BACKSLASH \/ e = "/"
       THEN ParseJSONString(text, i + 2, Append(acc, e))
       ELSE IF e = "n" THEN ParseJSONString(text, i + 2, Append(acc, LF))
       ELSE IF e = "r" THEN ParseJSONString(text, i + 2, Append(acc, CR))
       ELSE IF e = "t" THEN ParseJSONString(text, i + 2, Append(acc, TAB))
       ELSE ParseFailure

RECURSIVE ParseJSONValue(_, _)
RECURSIVE ParseJSONElements(_, _, _)
RECURSIVE ParseJSONMembers(_, _, _)

\* i is the position of the next element, or of the closing bracket.
ParseJSONElements(text, i, acc) ==
    IF At(text, i) = "]" /\ Len(acc) = 0
    THEN ParseSuccess("array", acc, i + 1)
    ELSE LET r == ParseJSONValue(text, i)
             k == SkipWhitespace(text, r.i)
         IN IF ~r.ok THEN ParseFailure
            ELSE IF At(text, k) = ","
            THEN ParseJSONElements(text, SkipWhitespace(text, k + 1),
                                   Append(acc, r.v))
            ELSE IF At(text, k) = "]"
            THEN ParseSuccess("array", Append(acc, r.v), k + 1)
            ELSE ParseFailure

\* i is the position of the next member's key, or of the closing brace.
ParseJSONMembers(text, i, acc) ==
    IF At(text, i) = "}" /\ Len(acc) = 0
    THEN ParseSuccess("object", acc, i + 1)
    ELSE IF At(text, i) # QUOTE THEN ParseFailure
    ELSE LET key == ParseJSONString(text, i + 1, <<>>)
             colon == SkipWhitespace(text, key.i)
             r == ParseJSONValue(text, colon + 1)
             k == SkipWhitespace(text, r.i)
         IN IF ~key.ok \/ At(text, colon) # ":" THEN ParseFailure
            ELSE IF ~r.ok THEN ParseFailure
            ELSE IF At(text, k) = ","
            THEN ParseJSONMembers(text, SkipWhitespace(text, k + 1),
                                  Append(acc, <<key.v.value, r.v>>))
            ELSE IF At(text, k) = "}"
            THEN ParseSuccess("object",
                              Append(acc, <<key.v.value, r.v>>), k + 1)
            ELSE ParseFailure

ParseJSONValue(text, i) ==
    LET j == SkipWhitespace(text, i)
        c == At(text, j)
    IN IF c = QUOTE THEN ParseJSONString(text, j + 1, <<>>)
       ELSE IF c = "[" 
       THEN ParseJSONElements(text, SkipWhitespace(text, j + 1), <<>>)
       ELSE IF c = "{"
       THEN ParseJSONMembers(text, SkipWhitespace(text, j + 1), <<>>)
       ELSE ParseFailure

ParseJSON(text) ==
    LET r == ParseJSONValue(text, 1)
    IN IF r.ok /\ SkipWhitespace(text, r.i) = Len(text) + 1
       THEN r.v ELSE ParseFailure.v

\* The members of an object are the given keys, in this order, and the
\* listed ones hold strings.
HasMembers(value, keys, stringKeys) ==
    /\ value.kind = "object"
    /\ Len(value.value) = Len(keys)
    /\ \A i \in 1..Len(keys) :
           /\ value.value[i][1] = keys[i]
           /\ keys[i] \in stringKeys => value.value[i][2].kind = "string"

InvalidRecord ==
    [name |-> <<"#invalid">>, category |-> <<>>, description |-> <<>>,
     attributes |-> <<>>]

\* The record a JSON text stands for: {name, category, description,
\* attributes: [{name, type, description}]}.
FromJSON(text) ==
    LET value == ParseJSON(text)
        strings == {K_name, K_category, K_description, K_type}
    IN IF /\ HasMembers(value,
                        <<K_name, K_category, K_description, K_attributes>>,
                        strings)
          /\ value.value[4][2].kind = "array"
          /\ \A i \in 1..Len(value.value[4][2].value) :
                 HasMembers(value.value[4][2].value[i],
                            <<K_name, K_type, K_description>>, strings)
       THEN [name |-> value.value[1][2].value,
             category |-> value.value[2][2].value,
             description |-> value.value[3][2].value,
             attributes |->
                 [i \in 1..Len(value.value[4][2].value) |->
                     LET attr == value.value[4][2].value[i].value
                     IN [name |-> attr[1][2].value,
                         type |-> attr[2][2].value,
                         description |-> attr[3][2].value]]]
       ELSE InvalidRecord

\* C11: the JSON export reads back as the collected record: same name,
\* category and description, same attributes in the same order.
C11_JsonRoundTrip ==
    download.format = "json" =>
        FromJSON(download.content) = collectTemplateData

\* A JSON export of MaxRows attributes, with a double quote in an attribute
\* description and a line break and a backslash in the description.
C11_Witness ==
    /\ download.format = "json"
    /\ Len(collectTemplateData.attributes) = MaxRows
    /\ \E i \in 1..Len(attributeRows) :
           /\ RowCollected(attributeRows[i])
           /\ Includes(attributeRows[i].description, <<QUOTE>>)
    /\ Includes(templateDescription, <<LF, BACKSLASH>>)

\* The rows of the form whose name and type are both filled in.
FilledRows ==
    {i \in 1..Len(attributeRows) :
        attributeRows[i].name # <<>> /\ attributeRows[i].type # <<>>}

\* C12: collectTemplateData yields, in row order, exactly one attribute for
\* each row whose name and type are both non-empty and none for the others.
C12_CollectKeepsFilledRows ==
    LET attrs == collectTemplateData.attributes
    IN /\ Len(attrs) = Cardinality(FilledRows)
       /\ \A i \in FilledRows :
              attrs[Cardinality({j \in FilledRows : j <= i})] =
                  attributeRows[i]

\* A half-filled row (description without a name) stands before a filled
\* row, and the filled row alone is collected.
C12_Witness ==
    /\ Len(attributeRows) = 2
    /\ attributeRows[1].name = <<>>
    /\ attributeRows[1].description # <<>>
    /\ attributeRows[2].name # <<>>
    /\ collectTemplateData.attributes = <<attributeRows[2]>>

(***************************************************************************)
(* The statistics of loadValidationData as a function of the finding list: *)
(* the list starts empty and grows by one finding of any status at a time, *)
(* or is the list the code renders.                                        *)
(***************************************************************************)
MaxFindings == 6

FindingStatuses == {"success", "warning", "error"}

ScoreInit ==
    /\ now = 0
    /\ templateName = <<>>
    /\ templateCategory = <<>>
    /\ templateDescription = <<>>
    /\ attributeRows = <<>>
    /\ savedConfigs = <<>>
    /\ configsGrid = <<>>
    /\ configSearch = <<>>
    /\ toast = NoToast
    /\ download = NoFile
    /\ attributes = <<>>
    /\ validationResults = <<>>
    /\ criticalIssues = CountStatus(<<>>, "error")
    /\ warningsCount = CountStatus(<<>>, "warning")
    /\ validationScore = Score(CountStatus(<<>>, "error"),
                               CountStatus(<<>>, "warning"))
    /\ fixedIssues = SuccessCount
    /\ pendingTimeouts = <<>>
    /\ buttonLoading = FALSE
    /\ referenceGrid = <<>>
    /\ activeFilter = "all"
    /\ referenceSearch = <<>>
    /\ ShellInit

formVars ==
    <<now, templateName, templateCategory, templateDescription,
      attributeRows, savedConfigs, configsGrid, configSearch, toast,
      download>>

\* The statistics for the list extended by one finding.
AddFinding(status) ==
    /\ Len(validationResults) < MaxFindings
    /\ ShowValidation(Append(validationResults,
                             Finding("namingValidationList", "finding",
                                     status)))
    /\ UNCHANGED <<formVars, attributes, timerVars, catalogVars>>
    /\ UNCHANGED shellVars

\* The statistics for the list of the code.
LoadValidationData ==
    /\ loadValidationData
    /\ UNCHANGED <<formVars, attributes, timerVars, catalogVars>>
    /\ UNCHANGED shellVars

NextScore ==
    \/ \E status \in FindingStatuses : AddFinding(status)
    \/ LoadValidationData

ScoreSpec == ScoreInit /\ [][NextScore]_vars

\* C13: the score is an integer in 0..100 equal to
\* max(0, 100 - 20 * errors - 5 * warnings) over the findings shown.
C13_ScoreFormula ==
    LET errorCount == CountStatus(validationResults, "error")
        warningCount == CountStatus(validationResults, "warning")
        raw == 100 - 20 * errorCount - 5 * warningCount
    IN /\ validationScore \in 0..100
       /\ validationScore = IF raw < 0 THEN 0 ELSE raw

\* Errors and warnings together cost more than 100 points, and the score is
\* clamped to 0.
C13_Witness ==
    /\ CountStatus(validationResults, "error") >= 1
    /\ CountStatus(validationResults, "warning") >= 1
    /\ 20 * CountStatus(validationResults, "error")
         + 5 * CountStatus(validationResults, "warning") > 100
    /\ validationScore = 0

\* The finding list grows by one finding of status warning or error.
OneMoreIssue ==
    /\ Len(validationResults') = Len(validationResults) + 1
    /\ SubSeq(validationResults', 1, Len(validationResults)) =
           validationResults
    /\ validationResults'[Len(validationResults')].status
           \in {"warning", "error"}

\* C14: one more warning or error finding never raises the score, and the
\* score stays in 0..100.
C14_ScoreMonotone ==
    [][OneMoreIssue =>
           /\ validationScore' <= validationScore
           /\ validationScore' \in 0..100
           /\ validationScore \in 0..100]_vars

\* An error was added to a list whose score was already 0.
C14_Witness ==
    /\ Len(validationResults) = MaxFindings
    /\ \A i \in 1..MaxFindings : validationResults[i].status = "error"
    /\ validationScore = 0

(***************************************************************************)
(* Simulated processing: the validator buttons and the loading state of    *)
(* improveButtonFeedback. pendingTimeouts holds the callbacks handed to    *)
(* setTimeout and not yet run, in the order of the calls.                  *)
(***************************************************************************)
MaxPending == 1

TimeoutDelay(callback) ==
    CASE callback = "runValidation" -> 2000
      [] callback = "autoFixIssues" -> 1500
      [] callback = "exportValidationReport" -> 1500
      [] callback = "validateAndApply" -> 2000
      [] callback = "generateRecommendations" -> 1500
      [] callback = "improveButtonFeedback" -> 800

\* The i-th pending callback can run now: every callback set earlier with
\* the same or a shorter delay has run.
TimeoutDue(i) ==
    /\ i \in 1..Len(pendingTimeouts)
    /\ \A j \in 1..(i - 1) :
           TimeoutDelay(pendingTimeouts[j]) > TimeoutDelay(pendingTimeouts[i])

RemoveAt(s, i) ==
    [j \in 1..(Len(s) - 1) |-> IF j < i THEN s[j] ELSE s[j + 1]]

dataVars ==
    <<templateName, templateCategory, templateDescription, attributeRows,
      savedConfigs>>

\* showToast(message, 'info'); setTimeout(callback, delay)
StartProcessing(callback, message) ==
    /\ Len(pendingTimeouts) < MaxPending
    /\ toast' = [message |-> <<message>>, type |-> "info"]
    /\ pendingTimeouts' = Append(pendingTimeouts, callback)
    /\ download' = NoFile
    /\ UNCHANGED <<now, dataVars, configsGrid, configSearch, attributes,
                   validatorVars, buttonLoading, catalogVars>>
    /\ UNCHANGED shellVars

\* Variant: the deferred callback also empties the store.
CompleteProcessing_ClearsStore(i, callback, message) ==
    /\ TimeoutDue(i)
    /\ pendingTimeouts[i] = callback
    /\ pendingTimeouts' = RemoveAt(pendingTimeouts, i)
    /\ toast' = [message |-> <<message>>, type |-> "success"]
    /\ download' = NoFile
    /\ savedConfigs' = <<>>
    /\ UNCHANGED <<now, templateName, templateCategory, templateDescription,
                   attributeRows, configsGrid, configSearch, attributes,
                   buttonLoading, catalogVars>>
    /\ UNCHANGED shellVars

\* The callback of a validator button runs: showToast(message, 'success').
CompleteProcessing(i, callback, message) ==
    /\ TimeoutDue(i)
    /\ pendingTimeouts[i] = callback
    /\ pendingTimeouts' = RemoveAt(pendingTimeouts, i)
    /\ toast' = [message |-> <<message>>, type |-> "success"]
    /\ download' = NoFile
    /\ UNCHANGED <<now, dataVars, configsGrid, configSearch, attributes,
                   buttonLoading, catalogVars>>
    /\ UNCHANGED shellVars

RunValidation == StartProcessing("runValidation", "Running validation...")

RunValidationCompleted(i) ==
    /\ CompleteProcessing(i, "runValidation",
                          "Validation completed successfully")
    /\ loadValidationData

AutoFixIssues == StartProcessing("autoFixIssues", "Auto-fixing issues...")

AutoFixIssuesCompleted(i) ==
    /\ CompleteProcessing(i, "autoFixIssues",
                          "Applied 8 auto-fixes successfully")
    /\ loadValidationData

ExportValidationReport ==
    StartProcessing("exportValidationReport",
                    "Generating validation report...")

ExportValidationReportCompleted(i) ==
    /\ CompleteProcessing(i, "exportValidationReport",
                          "Validation report exported successfully")
    /\ UNCHANGED validatorVars

ValidateAndApply ==
    StartProcessing("validateAndApply", "Validating and applying fixes...")

ValidateAndApplyCompleted(i) ==
    /\ CompleteProcessing(i, "validateAndApply",
                          "All fixes applied successfully")
    /\ UNCHANGED validatorVars

GenerateRecommendations ==
    StartProcessing("generateRecommendations",
                    "Generating recommendations...")

GenerateRecommendationsCompleted(i) ==
    /\ CompleteProcessing(i, "generateRecommendations",
                          "Recommendations generated and saved")
    /\ UNCHANGED validatorVars

\* Click listener of improveButtonFeedback on a button that is not disabled:
\* the button shows "Processing..." and is disabled for 800 ms.
ButtonFeedback ==
    /\ ~buttonLoading
    /\ Len(pendingTimeouts) < MaxPending
    /\ buttonLoading' = TRUE
    /\ pendingTimeouts' = Append(pendingTimeouts, "improveButtonFeedback")
    /\ download' = NoFile
    /\ UNCHANGED <<now, dataVars, configsGrid, configSearch, toast,
                   attributes, validatorVars, catalogVars>>
    /\ UNCHANGED shellVars

\* The button gets its content back and is enabled again.
ButtonFeedbackCompleted(i) ==
    /\ TimeoutDue(i)
    /\ pendingTimeouts[i] = "improveButtonFeedback"
    /\ pendingTimeouts' = RemoveAt(pendingTimeouts, i)
    /\ buttonLoading' = FALSE
    /\ download' = NoFile
    /\ UNCHANGED <<now, dataVars, configsGrid, configSearch, toast,
                   attributes, validatorVars, catalogVars>>
    /\ UNCHANGED shellVars

TimeoutFires ==
    \E i \in 1..MaxPending :
        \/ RunValidationCompleted(i)
        \/ AutoFixIssuesCompleted(i)
        \/ ExportValidationReportCompleted(i)
        \/ ValidateAndApplyCompleted(i)
        \/ GenerateRecommendationsCompleted(i)
        \/ ButtonFeedbackCompleted(i)

NextProcessing ==
    \/ \E s \in NameInputs : SetTemplateName(s)
    \/ AddAttribute
    \/ \E i \in 1..MaxRows, raw \in AttrNameInputs : SetAttrName(i, raw)
    \/ SaveTemplate
    \/ \E configId \in 0..now, confirmed \in BOOLEAN :  \* ids in use
           DeleteConfig(configId, confirmed)
    \/ RunValidation
    \/ AutoFixIssues
    \/ ExportValidationReport
    \/ ValidateAndApply
    \/ GenerateRecommendations
    \/ ButtonFeedback
    \/ TimeoutFires

ProcessingSpec == Init /\ [][NextProcessing]_vars

(***************************************************************************)
(* Properties of the validator buttons and of the deferred callbacks.      *)
(***************************************************************************)
Digits == <<"0", "1", "2", "3", "4", "5", "6", "7", "8", "9">>

IsAlphaNumeric(c) ==
    \/ \E i \in 1..26 : UpperCaseLetters[i] = c \/ LowerCaseLetters[i] = c
    \/ \E i \in 1..10 : Digits[i] = c

\* ^[A-Z][a-zA-Z0-9]*$
IsPascalCase(name) ==
    /\ Len(name) > 0
    /\ IsUpperCase(name[1])
    /\ \A k \in 1..Len(name) : IsAlphaNumeric(name[k])

NamingErrorShown ==
    \E k \in 1..Len(validationResults) :
        /\ validationResults[k].list = "namingValidationList"
        /\ validationResults[k].status = "error"

\* C15: a completed validation run shows an error-status naming finding
\* exactly when the name of the record on the form does not match
\* ^[A-Z][a-zA-Z0-9]*$.
C15_NamingFindingFollowsName ==
    [][(\E i \in 1..MaxPending : RunValidationCompleted(i)) =>
           (NamingErrorShown' <=> ~IsPascalCase(collectTemplateData.name))]_vars

AutoFixDone ==
    [message |-> <<"Applied 8 auto-fixes successfully">>, type |-> "success"]

\* C16: a completed auto-fix run, after any history including earlier
\* auto-fix runs, leaves the record on the form, the findings, the score and
\* the three counters as they were: a second run yields what the first did.
C16_AutoFixIdempotent ==
    [][(\E i \in 1..MaxPending : AutoFixIssuesCompleted(i)) =>
           /\ collectTemplateData' = collectTemplateData
           /\ validationResults' = validationResults
           /\ validationScore' = validationScore
           /\ criticalIssues' = criticalIssues
           /\ warningsCount' = warningsCount
           /\ fixedIssues' = fixedIssues]_vars

\* An auto-fix run has completed on a form with a name and an attribute,
\* and its result is on screen: the state every further run starts from.
C16_Witness ==
    /\ toast = AutoFixDone
    /\ pendingTimeouts = <<>>
    /\ Len(collectTemplateData.name) > 0
    /\ Len(collectTemplateData.attributes) > 0
    /\ validationResults = ValidationData

\* C19: when a deferred callback of the simulated processing fires, the
\* saved configurations and the record collected from the form are
\* unchanged by it.
C19_TimeoutsLeaveData ==
    [][TimeoutFires =>
           /\ savedConfigs' = savedConfigs
           /\ collectTemplateData' = collectTemplateData
           /\ attributeRows' = attributeRows]_vars

\* A deferred callback has fired while the store held a record and the form
\* an attribute.
C19_Witness ==
    /\ toast.type = "success"
    /\ toast.message \in {<<"Validation completed successfully">>,
                          <<"All fixes applied successfully">>,
                          <<"Recommendations generated and saved">>,
                          <<"Validation report exported successfully">>}
    /\ Len(savedConfigs) > 0
    /\ Len(collectTemplateData.attributes) > 0
    /\ pendingTimeouts = <<>>

(***************************************************************************)
(* Quick reference: getReferenceDataByFilter, displayFilteredData,         *)
(* applyFilter, filterReferenceData.                                       *)
(***************************************************************************)
ReferenceItem(name, type, category, description) ==
    [name |-> name, type |-> type, category |-> category,
     description |-> description]

C_AnalogIO ==
    <<"A", "n", "a", "l", "o", "g", " ", "I", "/", "O">>

C_DigitalIO ==
    <<"D", "i", "g", "i", "t", "a", "l", " ", "I", "/", "O">>

C_String == <<"S", "t", "r", "i", "n", "g">>

C_System == <<"S", "y", "s", "t", "e", "m">>

analogData ==
    <<ReferenceItem(
           <<"A", "I", "_", "I", "N", "T">>,
           "analog", C_AnalogIO,
           <<"A", "n", "a", "l", "o", "g", " ", "I", "n", "p", "u", "t", " ",
             "I", "n", "t", "e", "g", "e", "r", " ", "-", " ", "1", "6", "-",
             "b", "i", "t", " ", "s", "i", "g", "n", "e", "d", " ", "i", "n",
             "t", "e", "g", "e", "r", " ", "f", "o", "r", " ", "a", "n", "a",
             "l", "o", "g", " ", "i", "n", "p", "u", "t", "s">>),
       ReferenceItem(
           <<"A", "I", "_", "R", "E", "A", "L">>,
           "analog", C_AnalogIO,
           <<"A", "n", "a", "l", "o", "g", " ", "I", "n", "p", "u", "t", " ",
             "R", "e", "a", "l", " ", "-", " ", "3", "2", "-", "b", "i", "t",
             " ", "f", "l", "o", "a", "t", "i", "n", "g", " ", "p", "o", "i",
             "n", "t", " ", "f", "o", "r", " ", "p", "r", "e", "c", "i", "s",
             "i", "o", "n", " ", "m", "e", "a", "s", "u", "r", "e", "m", "e",
             "n", "t", "s">>),
       ReferenceItem(
           <<"A", "O", "_", "I", "N", "T">>,
           "analog", C_AnalogIO,
           <<"A", "n", "a", "l", "o", "g", " ", "O", "u", "t", "p", "u", "t",
             " ", "I", "n", "t", "e", "g", "e", "r", " ", "-", " ", "1", "6",
             "-", "b", "i", "t", " ", "s", "i", "g", "n", "e", "d", " ", "i",
             "n", "t", "e", "g", "e", "r", " ", "f", "o", "r", " ", "a", "n",
             "a", "l", "o", "g", " ", "o", "u", "t", "p", "u", "t", "s">>),
       ReferenceItem(
           <<"A", "O", "_", "R", "E", "A", "L">>,
           "analog", C_AnalogIO,
           <<"A", "n", "a", "l", "o", "g", " ", "O", "u", "t", "p", "u", "t",
             " ", "R", "e", "a", "l", " ", "-", " ", "3", "2", "-", "b", "i",
             "t", " ", "f", "l", "o", "a", "t", "i", "n", "g", " ", "p", "o",
             "i", "n", "t", " ", "f", "o", "r", " ", "p", "r", "e", "c", "i",
             "s", "e", " ", "c", "o", "n", "t", "r", "o", "l">>),
       ReferenceItem(
           <<"A", "I", "_", "L", "R", "E", "A", "L">>,
           "analog", C_AnalogIO,
           <<"A", "n", "a", "l", "o", "g", " ", "I", "n", "p", "u", "t", " ",
             "L", "o", "n", "g", " ", "R", "e", "a", "l", " ", "-", " ", "6",
             "4", "-", "b", "i", "t", " ", "f", "l", "o", "a", "t", "i", "n",
             "g", " ", "p", "o", "i", "n", "t", " ", "f", "o", "r", " ", "h",
             "i", "g", "h", " ", "p", "r", "e", "c", "i", "s", "i", "o", "n">>),
       ReferenceItem(
           <<"A", "O", "_", "L", "R", "E", "A", "L">>,
           "analog", C_AnalogIO,
           <<"A", "n", "a", "l", "o", "g", " ", "O", "u", "t", "p", "u", "t",
             " ", "L", "o", "n", "g", " ", "R", "e", "a", "l", " ", "-", " ",
             "6", "4", "-", "b", "i", "t", " ", "f", "l", "o", "a", "t", "i",
             "n", "g", " ", "p", "o", "i", "n", "t", " ", "f", "o", "r", " ",
             "p", "r", "e", "c", "i", "s", "e", " ", "c", "o", "n", "t", "r",
             "o", "l">>)>>

digitalData ==
    <<ReferenceItem(
           <<"D", "I">>,
           "digital", C_DigitalIO,
           <<"D", "i", "g", "i", "t", "a", "l", " ", "I", "n", "p", "u", "t",
             " ", "-", " ", "B", "o", "o", "l", "e", "a", "n", " ", "i", "n",
             "p", "u", "t", " ", "f", "o", "r", " ", "o", "n", "/", "o", "f",
             "f", " ", "s", "t", "a", "t", "e", "s">>),
       ReferenceItem(
           <<"D", "O">>,
           "digital", C_DigitalIO,
           <<"D", "i", "g", "i", "t", "a", "l", " ", "O", "u", "t", "p", "u",
             "t", " ", "-", " ", "B", "o", "o", "l", "e", "a", "n", " ", "o",
             "u", "t", "p", "u", "t", " ", "f", "o", "r", " ", "c", "o", "n",
             "t", "r", "o", "l", " ", "s", "i", "g", "n", "a", "l", "s">>),
       ReferenceItem(
           <<"D", "I", "_", "W", "O", "R", "D">>,
           "digital", C_DigitalIO,
           <<"D", "i", "g", "i", "t", "a", "l", " ", "I", "n", "p", "u", "t",
             " ", "W", "o", "r", "d", " ", "-", " ", "1", "6", "-", "b", "i",
             "t", " ", "d", "i", "g", "i", "t", "a", "l", " ", "i", "n", "p",
             "u", "t", " ", "r", "e", "g", "i", "s", "t", "e", "r">>),
       ReferenceItem(
           <<"D", "O", "_", "W", "O", "R", "D">>,
           "digital", C_DigitalIO,
           <<"D", "i", "g", "i", "t", "a", "l", " ", "O", "u", "t", "p", "u",
             "t", " ", "W", "o", "r", "d", " ", "-", " ", "1", "6", "-", "b",
             "i", "t", " ", "d", "i", "g", "i", "t", "a", "l", " ", "o", "u",
             "t", "p", "u", "t", " ", "r", "e", "g", "i", "s", "t", "e", "r">>),
       ReferenceItem(
           <<"D", "I", "_", "D", "W", "O", "R", "D">>,
           "digital", C_DigitalIO,
           <<"D", "i", "g", "i", "t", "a", "l", " ", "I", "n", "p", "u", "t",
             " ", "D", "o", "u", "b", "l", "e", " ", "W", "o", "r", "d", " ",
             "-", " ", "3", "2", "-", "b", "i", "t", " ", "d", "i", "g", "i",
             "t", "a", "l", " ", "i", "n", "p", "u", "t", " ", "r", "e", "g",
             "i", "s", "t", "e", "r">>),
       ReferenceItem(
           <<"D", "O", "_", "D", "W", "O", "R", "D">>,
           "digital", C_DigitalIO,
           <<"D", "i", "g", "i", "t", "a", "l", " ", "O", "u", "t", "p", "u",
             "t", " ", "D", "o", "u", "b", "l", "e", " ", "W", "o", "r", "d",
             " ", "-", " ", "3", "2", "-", "b", "i", "t", " ", "d", "i", "g",
             "i", "t", "a", "l", " ", "o", "u", "t", "p", "u", "t", " ", "r",
             "e", "g", "i", "s", "t", "e", "r">>)>>

stringData ==
    <<ReferenceItem(
           <<"S", "T", "R", "I", "N", "G">>,
           "string", C_String,
           <<"S", "t", "r", "i", "n", "g", " ", "-", " ", "V", "a", "r", "i",
             "a", "b", "l", "e", " ", "l", "e", "n", "g", "t", "h", " ", "c",
             "h", "a", "r", "a", "c", "t", "e", "r", " ", "s", "t", "r", "i",
             "n", "g">>),
       ReferenceItem(
           <<"S", "T", "R", "I", "N", "G", "_", "8", "0">>,
           "string", C_String,
           <<"S", "t", "r", "i", "n", "g", " ", "8", "0", " ", "-", " ", "F",
             "i", "x", "e", "d", " ", "8", "0", " ", "c", "h", "a", "r", "a",
             "c", "t", "e", "r", " ", "s", "t", "r", "i", "n", "g">>),
       ReferenceItem(
           <<"S", "T", "R", "I", "N", "G", "_", "2", "5", "6">>,
           "string", C_String,
           <<"S", "t", "r", "i", "n", "g", " ", "2", "5", "6", " ", "-", " ",
             "F", "i", "x", "e", "d", " ", "2", "5", "6", " ", "c", "h", "a",
             "r", "a", "c", "t", "e", "r", " ", "s", "t", "r", "i", "n", "g">>),
       ReferenceItem(
           <<"W", "S", "T", "R", "I", "N", "G">>,
           "string", C_String,
           <<"W", "i", "d", "e", " ", "S", "t", "r", "i", "n", "g", " ", "-",
             " ", "U", "n", "i", "c", "o", "d", "e", " ", "s", "t", "r", "i",
             "n", "g", " ", "s", "u", "p", "p", "o", "r", "t">>),
       ReferenceItem(
           <<"S", "T", "R", "I", "N", "G", "_", "R", "E", "F">>,
           "string", C_String,
           <<"S", "t", "r", "i", "n", "g", " ", "R", "e", "f", "e", "r", "e",
             "n", "c", "e", " ", "-", " ", "P", "o", "i", "n", "t", "e", "r",
             " ", "t", "o", " ", "s", "t", "r", "i", "n", "g", " ", "d", "a",
             "t", "a">>)>>

systemData ==
    <<ReferenceItem(
           <<"T", "I", "M", "E">>,
           "system", C_System,
           <<"T", "i", "m", "e", " ", "-", " ", "S", "y", "s", "t", "e", "m",
             " ", "t", "i", "m", "e", "s", "t", "a", "m", "p">>),
       ReferenceItem(
           <<"D", "A", "T", "E">>,
           "system", C_System,
           <<"D", "a", "t", "e", " ", "-", " ", "S", "y", "s", "t", "e", "m",
             " ", "d", "a", "t", "e">>),
       ReferenceItem(
           <<"D", "T">>,
           "system", C_System,
           <<"D", "a", "t", "e", "T", "i", "m", "e", " ", "-", " ", "C", "o",
             "m", "b", "i", "n", "e", "d", " ", "d", "a", "t", "e", " ", "a",
             "n", "d", " ", "t", "i", "m", "e">>),
       ReferenceItem(
           <<"T", "O", "D">>,
           "system", C_System,
           <<"T", "i", "m", "e", " ", "o", "f", " ", "D", "a", "y", " ", "-",
             " ", "T", "i", "m", "e", " ", "w", "i", "t", "h", "o", "u", "t",
             " ", "d", "a", "t", "e">>),
       ReferenceItem(
           <<"R", "E", "A", "L">>,
           "system", C_System,
           <<"R", "e", "a", "l", " ", "-", " ", "3", "2", "-", "b", "i", "t",
             " ", "f", "l", "o", "a", "t", "i", "n", "g", " ", "p", "o", "i",
             "n", "t", " ", "n", "u", "m", "b", "e", "r">>),
       ReferenceItem(
           <<"L", "R", "E", "A", "L">>,
           "system", C_System,
           <<"L", "o", "n", "g", " ", "R", "e", "a", "l", " ", "-", " ", "6",
             "4", "-", "b", "i", "t", " ", "f", "l", "o", "a", "t", "i", "n",
             "g", " ", "p", "o", "i", "n", "t", " ", "n", "u", "m", "b", "e",
             "r">>),
       ReferenceItem(
           <<"I", "N", "T">>,
           "system", C_System,
           <<"I", "n", "t", "e", "g", "e", "r", " ", "-", " ", "1", "6", "-",
             "b", "i", "t", " ", "s", "i", "g", "n", "e", "d", " ", "i", "n",
             "t", "e", "g", "e", "r">>),
       ReferenceItem(
           <<"D", "I", "N", "T">>,
           "system", C_System,
           <<"D", "o", "u", "b", "l", "e", " ", "I", "n", "t", "e", "g", "e",
             "r", " ", "-", " ", "3", "2", "-", "b", "i", "t", " ", "s", "i",
             "g", "n", "e", "d", " ", "i", "n", "t", "e", "g", "e", "r">>),
       ReferenceItem(
           <<"U", "D", "I", "N", "T">>,
           "system", C_System,
           <<"U", "n", "s", "i", "g", "n", "e", "d", " ", "D", "o", "u", "b",
             "l", "e", " ", "I", "n", "t", "e", "g", "e", "r", " ", "-", " ",
             "3", "2", "-", "b", "i", "t", " ", "u", "n", "s", "i", "g", "n",
             "e", "d", " ", "i", "n", "t", "e", "g", "e", "r">>),
       ReferenceItem(
           <<"S", "I", "N", "T">>,
           "system", C_System,
           <<"S", "h", "o", "r", "t", " ", "I", "n", "t", "e", "g", "e", "r",
             " ", "-", " ", "8", "-", "b", "i", "t", " ", "s", "i", "g", "n",
             "e", "d", " ", "i", "n", "t", "e", "g", "e", "r">>),
       ReferenceItem(
           <<"U", "S", "I", "N", "T">>,
           "system", C_System,
           <<"U", "n", "s", "i", "g", "n", "e", "d", " ", "S", "h", "o", "r",
             "t", " ", "I", "n", "t", "e", "g", "e", "r", " ", "-", " ", "8",
             "-", "b", "i", "t", " ", "u", "n", "s", "i", "g", "n", "e", "d",
             " ", "i", "n", "t", "e", "g", "e", "r">>),
       ReferenceItem(
           <<"B", "Y", "T", "E">>,
           "system", C_System,
           <<"B", "y", "t", "e", " ", "-", " ", "8", "-", "b", "i", "t", " ",
             "b", "i", "n", "a", "r", "y", " ", "d", "a", "t", "a">>),
       ReferenceItem(
           <<"W", "O", "R", "D">>,
           "system", C_System,
           <<"W", "o", "r", "d", " ", "-", " ", "1", "6", "-", "b", "i", "t",
             " ", "b", "i", "n", "a", "r", "y", " ", "d", "a", "t", "a">>),
       ReferenceItem(
           <<"D", "W", "O", "R", "D">>,
           "system", C_System,
           <<"D", "o", "u", "b", "l", "e", " ", "W", "o", "r", "d", " ", "-",
             " ", "3", "2", "-", "b", "i", "t", " ", "b", "i", "n", "a", "r",
             "y", " ", "d", "a", "t", "a">>)>>

allData == analogData \o digitalData \o stringData \o systemData

\* The data-filter values: 'all', the four types of the data, and the
\* README's fifth category.
FilterTypes == {"all", "analog", "digital", "string", "system", "quality"}

ReferenceSearchInputs ==
    {<<>>,
     <<"d", "i", "g", "i", "t", "a", "l">>,
     <<"R", "E", "A", "L">>,
     <<"i", "/", "o">>,
     <<"z", "z">>,
     <<"S", "t", "r", "i", "n", "g">>,
     <<"b", "i", "t">>,
     <<"i", "n", "p", "u", "t">>}

\* Variant: 'all' is treated as a type like the others.
getReferenceDataByFilter_NoAllCase(filterType) ==
    SelectSeq(allData, LAMBDA item : item.type = filterType)

getReferenceDataByFilter(filterType) ==
    IF filterType = "all" THEN allData
    ELSE SelectSeq(allData, LAMBDA item : item.type = filterType)

\* Variant: the category of an item is not searched.
ItemMatches_NoCategory(item, searchTerm) ==
    \/ Includes(ToLowerCase(item.name), ToLowerCase(searchTerm))
    \/ Includes(ToLowerCase(item.description), ToLowerCase(searchTerm))

ItemMatches(item, searchTerm) ==
    \/ Includes(ToLowerCase(item.name), ToLowerCase(searchTerm))
    \/ Includes(ToLowerCase(item.description), ToLowerCase(searchTerm))
    \/ Includes(ToLowerCase(item.category), ToLowerCase(searchTerm))

\* The cards rendered into #referenceGrid; the "no results" block is the
\* empty list.
displayFilteredData(filterType, searchTerm) ==
    LET referenceData == getReferenceDataByFilter(filterType)
    IN IF Len(searchTerm) > 0
       THEN SelectSeq(referenceData,
                      LAMBDA item : ItemMatches(item, searchTerm))
       ELSE referenceData

\* switchSection('quick-reference'): displayFilteredData('all').
InitializeQuickReference ==
    /\ referenceGrid' = displayFilteredData("all", <<>>)
    /\ download' = NoFile
    /\ UNCHANGED <<now, dataVars, configsGrid, configSearch, toast,
                   attributes, validatorVars, timerVars, activeFilter,
                   referenceSearch>>
    /\ UNCHANGED shellVars

\* Click on the filter tab of filterType.
ApplyFilter(filterType) ==
    /\ activeFilter' = filterType
    /\ referenceGrid' = displayFilteredData(filterType, <<>>)
    /\ toast' = [message |-> <<"Showing ",
                               IF filterType = "all" THEN "all types"
                               ELSE filterType,
                               " data">>,
                 type |-> "info"]
    /\ download' = NoFile
    /\ UNCHANGED <<now, dataVars, configsGrid, configSearch, attributes,
                   validatorVars, timerVars, referenceSearch>>
    /\ UNCHANGED shellVars

\* input event on #referenceSearch.
FilterReferenceData(searchTerm) ==
    /\ referenceSearch' = searchTerm
    /\ referenceGrid' = displayFilteredData(activeFilter, searchTerm)
    /\ download' = NoFile
    /\ UNCHANGED <<now, dataVars, configsGrid, configSearch, toast,
                   attributes, validatorVars, timerVars, activeFilter>>
    /\ UNCHANGED shellVars

NextCatalog ==
    \/ InitializeQuickReference
    \/ \E filterType \in FilterTypes : ApplyFilter(filterType)
    \/ \E searchTerm \in ReferenceSearchInputs :
           FilterReferenceData(searchTerm)

CatalogSpec == Init /\ [][NextCatalog]_vars

\* The data types of the README's Data Type Reference, in its order.
DocumentedNames ==
    << <<"A", "I", "_", "I", "N", "T">>,
      <<"A", "I", "_", "R", "E", "A", "L">>,
      <<"A", "O", "_", "I", "N", "T">>,
      <<"A", "O", "_", "R", "E", "A", "L">>,
      <<"A", "I", "_", "L", "R", "E", "A", "L">>,
      <<"A", "O", "_", "L", "R", "E", "A", "L">>,
      <<"D", "I">>,
      <<"D", "O">>,
      <<"D", "I", "_", "W", "O", "R", "D">>,
      <<"D", "O", "_", "W", "O", "R", "D">>,
      <<"D", "I", "_", "D", "W", "O", "R", "D">>,
      <<"D", "O", "_", "D", "W", "O", "R", "D">>,
      <<"S", "T", "R", "I", "N", "G">>,
      <<"S", "T", "R", "I", "N", "G", "_", "8", "0">>,
      <<"S", "T", "R", "I", "N", "G", "_", "2", "5", "6">>,
      <<"W", "S", "T", "R", "I", "N", "G">>,
      <<"S", "T", "R", "I", "N", "G", "_", "R", "E", "F">>,
      <<"T", "I", "M", "E">>,
      <<"D", "A", "T", "E">>,
      <<"D", "T">>,
      <<"T", "O", "D">>,
      <<"R", "E", "A", "L">>,
      <<"L", "R", "E", "A", "L">>,
      <<"I", "N", "T">>,
      <<"D", "I", "N", "T">>,
      <<"U", "D", "I", "N", "T">>,
      <<"S", "I", "N", "T">>,
      <<"U", "S", "I", "N", "T">>,
      <<"B", "Y", "T", "E">>,
      <<"W", "O", "R", "D">>,
      <<"D", "W", "O", "R", "D">>>>

\* A call of displayFilteredData with neither a type nor a search term.
ListedWithoutFilter ==
    \/ InitializeQuickReference
    \/ ApplyFilter("all")
    \/ activeFilter = "all" /\ FilterReferenceData(<<>>)

\* C17: every listing with no type filter and no search text shows the
\* complete catalog: 31 entries, in the declaration order, which is that of
\* the README, with pairwise distinct names.
C17_FullCatalog ==
    [][ListedWithoutFilter =>
           /\ Len(referenceGrid') = 31
           /\ \A i \in 1..Len(referenceGrid') :
                  referenceGrid'[i].name = DocumentedNames[i]
           /\ \A i, j \in 1..Len(referenceGrid') :
                  referenceGrid'[i].name = referenceGrid'[j].name => i = j]_vars

\* The 'all' tab was clicked with an empty search field, and the full
\* catalog is listed.
C17_Witness ==
    /\ Len(referenceGrid) = 31
    /\ activeFilter = "all"
    /\ toast.message = <<"Showing ", "all types", " data">>
    /\ Len(referenceSearch) = 0

\* The positions of the catalog that a type and a search text select.
Selected(filterType, searchTerm) ==
    {i \in 1..Len(allData) :
        /\ filterType # "all" => allData[i].type = filterType
        /\ Len(searchTerm) > 0 =>
               \E field \in {allData[i].name, allData[i].description,
                              allData[i].category} :
                   Includes(ToLowerCase(field), ToLowerCase(searchTerm))}

\* list holds the selected entries, in the order of the catalog.
ListsSelected(list, filterType, searchTerm) ==
    LET selected == Selected(filterType, searchTerm)
    IN /\ Len(list) = Cardinality(selected)
       /\ \A i \in selected :
              list[Cardinality({j \in selected : j <= i})] = allData[i]

\* C18: a listing shows, in declaration order, exactly the entries whose
\* type is the type filter of the call (when one is given) and whose name,
\* description or category contains the search text of the call (when one
\* is given), case-insensitively; the result may be empty.
C18_FilteredCatalog ==
    [][/\ \A filterType \in FilterTypes :
              ApplyFilter(filterType) =>
                  ListsSelected(referenceGrid', filterType, <<>>)
       /\ \A searchTerm \in ReferenceSearchInputs :
              FilterReferenceData(searchTerm) =>
                  ListsSelected(referenceGrid', activeFilter, searchTerm)]_vars

\* A search for "i/o" under the digital filter lists the six digital
\* entries, found through their category alone.
C18_Witness ==
    /\ activeFilter = "digital"
    /\ referenceSearch = <<"i", "/", "o">>
    /\ Len(referenceGrid) = 6
    /\ \A i \in 1..Len(referenceGrid) : referenceGrid[i].type = "digital"

(***************************************************************************)
(* Pre-built templates: applyTemplate.                                     *)
(***************************************************************************)
MaxAttributes == 6

motorTemplate ==
    << [name |-> <<"R", "u", "n", "n", "i", "n", "g", "S", "t", "a", "t", "u", "s">>,
          type |-> <<"D", "I">>,
          description |->
              <<"M", "o", "t", "o", "r", " ", "r", "u", "n", "n", "i", "n", "g", " ", "s", "t", "a", "t", "u", "s">>],
       [name |-> <<"S", "p", "e", "e", "d">>,
          type |-> <<"A", "I">>,
          description |->
              <<"M", "o", "t", "o", "r", " ", "s", "p", "e", "e", "d">>],
       [name |-> <<"C", "u", "r", "r", "e", "n", "t">>,
          type |-> <<"A", "I">>,
          description |->
              <<"M", "o", "t", "o", "r", " ", "c", "u", "r", "r", "e", "n", "t">>] >>

valveTemplate ==
    << [name |-> <<"P", "o", "s", "i", "t", "i", "o", "n">>,
          type |-> <<"A", "I">>,
          description |->
              <<"V", "a", "l", "v", "e", " ", "p", "o", "s", "i", "t", "i", "o", "n">>],
       [name |-> <<"M", "o", "d", "e">>,
          type |-> <<"D", "I">>,
          description |->
              <<"A", "u", "t", "o", "/", "M", "a", "n", "u", "a", "l", " ", "m", "o", "d", "e">>] >>

pumpTemplate ==
    << [name |-> <<"F", "l", "o", "w">>,
          type |-> <<"A", "I">>,
          description |->
              <<"F", "l", "o", "w", " ", "r", "a", "t", "e">>],
       [name |-> <<"P", "r", "e", "s", "s", "u", "r", "e">>,
          type |-> <<"A", "I">>,
          description |->
              <<"D", "i", "s", "c", "h", "a", "r", "g", "e", " ", "p", "r", "e", "s", "s", "u", "r", "e">>] >>

TemplateNames == {"motor", "valve", "pump"}

\* templates[templateName].attributes
TemplateAttributes(templateKey) ==
    CASE templateKey = "motor" -> motorTemplate
      [] templateKey = "valve" -> valveTemplate
      [] templateKey = "pump" -> pumpTemplate

\* The values of data-template: the three templates, a name without a
\* template, and none (the click landed on a child of the button).
TemplateInputs == TemplateNames \cup {"tank", "undefined"}

\* The <option> values of a row's .attr-type.
AttrTypeOptions ==
    {S_DI, <<"D", "O">>, S_AI, <<"A", "O">>,
     <<"S", "T", "R", "I", "N", "G">>}

\* Assigning to the value of a <select>: a value without an option leaves
\* nothing selected.
SelectValue(v) == IF v \in AttrTypeOptions THEN v ELSE <<>>

\* The row addAttributeRow appends, filled in from attr.
FilledRow(attr) ==
    [name |-> InputTextValue(attr.name),
     type |-> SelectValue(attr.type),
     description |-> InputTextValue(attr.description)]

\* Variant: the container is not cleared before the rows are added.
TemplateRows_KeepsRows(rows, attrs) ==
    rows \o [i \in 1..Len(attrs) |-> FilledRow(attrs[i])]

\* container.innerHTML = '', then one filled row per attribute.
TemplateRows(rows, attrs) ==
    [i \in 1..Len(attrs) |-> FilledRow(attrs[i])]

\* Click on the .template-btn whose data-template is templateKey.
ApplyTemplate(templateKey) ==
    /\ download' = NoFile
    /\ IF templateKey \notin TemplateNames
       THEN UNCHANGED <<attributeRows, attributes, toast>>
       ELSE /\ Len(attributes) + Len(TemplateAttributes(templateKey))
                   <= MaxAttributes
            /\ attributes' = attributes \o TemplateAttributes(templateKey)
            /\ attributeRows' =
                   TemplateRows(attributeRows,
                                TemplateAttributes(templateKey))
            /\ toast' = [message |-> <<"Applied ", templateKey,
                                       " template">>,
                         type |-> "info"]
    /\ UNCHANGED <<now, templateName, templateCategory, templateDescription,
                   savedConfigs, configsGrid, configSearch, validatorVars,
                   timerVars, catalogVars>>
    /\ UNCHANGED shellVars

NextTemplate ==
    \/ \E name \in TemplateInputs : ApplyTemplate(name)
    \/ AddAttribute
    \/ \E i \in 1..MaxRows : RemoveAttributeRow(i)
    \/ \E i \in 1..MaxRows, raw \in AttrNameInputs : SetAttrName(i, raw)
    \/ \E i \in 1..MaxRows, t \in AttrTypeInputs : SetAttrType(i, t)

TemplateSpec == Init /\ [][NextTemplate]_vars

appVars == <<formVars, attributes, validatorVars, timerVars, catalogVars>>

outsideWorker ==
    <<appVars, wizardVars, toastVars, debounceVars, registryVars,
      sanitizeVars>>

\* caches.open(name): the cache is created when it does not exist.
OpenCache(storage, name) ==
    IF name \in DOMAIN storage THEN storage
    ELSE [n \in (DOMAIN storage) \cup {name} |->
             IF n = name THEN {} ELSE storage[n]]

\* cache.put / cache.addAll into an existing cache.
PutAll(storage, name, urls) ==
    [storage EXCEPT ![name] = storage[name] \cup urls]

\* caches.delete(name)
DeleteCache(storage, name) ==
    [n \in (DOMAIN storage) \ {name} |-> storage[n]]

\* caches.match(url): a response stored under the URL in any cache.
CachesMatch(storage, url) == \E n \in DOMAIN storage : url \in storage[n]

\* install event: caches.open(CACHE_NAME) has resolved.
InstallEvent ==
    /\ swState = "parsed"
    /\ swState' = "installing"
    /\ cacheStorage' = OpenCache(cacheStorage, CACHE_NAME)
    /\ UNCHANGED <<skipWaitingCalled, pendingDeletes, clientsClaimed,
                   online, fetchResult, outsideWorker>>

\* cache.addAll(urlsToCache) resolves: every URL was fetched with an ok
\* response and all of them are stored.
AddAllResolves ==
    /\ swState = "installing"
    /\ online
    /\ cacheStorage' = PutAll(cacheStorage, CACHE_NAME, Range(urlsToCache))
    /\ swState' = "cached"
    /\ UNCHANGED <<skipWaitingCalled, pendingDeletes, clientsClaimed,
                   online, fetchResult, outsideWorker>>

\* cache.addAll rejects (the network is down, or a URL has no ok response):
\* nothing is stored, .catch swallows the error and waitUntil settles.
AddAllRejects ==
    /\ swState = "installing"
    /\ swState' = "installed"
    /\ UNCHANGED <<skipWaitingCalled, cacheStorage, pendingDeletes,
                   clientsClaimed, online, fetchResult, outsideWorker>>

\* self.skipWaiting(), and waitUntil settles.
SkipWaiting ==
    /\ swState = "cached"
    /\ skipWaitingCalled' = TRUE
    /\ swState' = "installed"
    /\ UNCHANGED <<cacheStorage, pendingDeletes, clientsClaimed, online,
                   fetchResult, outsideWorker>>

\* Variant: every cache is deleted.
CachesToDelete_All(cacheNames) == cacheNames

\* if (cacheName !== CACHE_NAME) return caches.delete(cacheName)
CachesToDelete(cacheNames) == {name \in cacheNames : name # CACHE_NAME}

\* activate event: caches.keys() has resolved and the deletions are started.
ActivateEvent ==
    /\ swState = "installed"
    /\ swState' = "activating"
    /\ pendingDeletes' = CachesToDelete(DOMAIN cacheStorage)
    /\ UNCHANGED <<skipWaitingCalled, cacheStorage, clientsClaimed, online,
                   fetchResult, outsideWorker>>

\* One caches.delete settles; the deletions settle in any order.
DeleteSettles(cacheName) ==
    /\ swState = "activating"
    /\ cacheName \in pendingDeletes
    /\ cacheStorage' = DeleteCache(cacheStorage, cacheName)
    /\ pendingDeletes' = pendingDeletes \ {cacheName}
    /\ UNCHANGED <<swState, skipWaitingCalled, clientsClaimed, online,
                   fetchResult, outsideWorker>>

\* Promise.all has resolved: self.clients.claim().
ClientsClaim ==
    /\ swState = "activating"
    /\ pendingDeletes = {}
    /\ clientsClaimed' = TRUE
    /\ swState' = "activated"
    /\ UNCHANGED <<skipWaitingCalled, cacheStorage, pendingDeletes, online,
                   fetchResult, outsideWorker>>

\* The network comes and goes.
SetOnline(reachable) ==
    /\ online # reachable
    /\ online' = reachable
    /\ UNCHANGED <<swState, skipWaitingCalled, cacheStorage, pendingDeletes,
                   clientsClaimed, fetchResult, outsideWorker>>

\* The requests of the controlled pages: the listed URLs, another URL of
\* the origin, and a URL of a foreign host whose text begins with the text
\* of the origin.
RequestUrls ==
    Range(urlsToCache)
        \cup {Resolve("/api/data.json"),
              <<Origin, ".evil.example", "/logo.png">>}

Requests ==
    [url : RequestUrls, method : {"GET", "POST"},
     destination : {"document", "image"}]

\* Scheme, host and port of the URL are those of self.location.
SameOrigin(url) == Len(url) = 2 /\ url[1] = Origin /\ url[2] \in Paths

\* event.request.url.startsWith(self.location.origin)
StartsWithOrigin(url) == StartsWithAt(url, 1, <<Origin>>)

\* response.type of a response the network gave for the URL.
ResponseType(url, mode) == IF SameOrigin(url) THEN "basic" ELSE mode

\* The request goes to the network past the worker.
NotIntercepted(request, status) ==
    /\ fetchResult' =
           [url |-> request.url, method |-> request.method,
            intercepted |-> FALSE, networkFetch |-> TRUE,
            response |-> IF online THEN "network" ELSE "error",
            cached |-> FALSE]
    /\ UNCHANGED cacheStorage

\* Variant: every successful response is stored, whatever its type.
ShouldCache_AnyType(status, type) == status = 200

\* !(!response || response.status !== 200 || response.type !== 'basic')
ShouldCache(status, type) == status = 200 /\ type = "basic"

\* fetch event of the active worker. status and mode are those of the
\* response the network would give.
FetchEvent(request, status, mode) ==
    /\ swState = "activated"
    /\ IF request.method # "GET" THEN NotIntercepted(request, status)
       ELSE IF ~StartsWithOrigin(request.url)
       THEN NotIntercepted(request, status)
       ELSE IF CachesMatch(cacheStorage, request.url)
       THEN /\ fetchResult' =
                   [url |-> request.url, method |-> request.method,
                    intercepted |-> TRUE, networkFetch |-> FALSE,
                    response |-> "cache", cached |-> FALSE]
            /\ UNCHANGED cacheStorage
       ELSE IF online
       THEN LET type == ResponseType(request.url, mode)
            IN /\ fetchResult' =
                      [url |-> request.url, method |-> request.method,
                       intercepted |-> TRUE, networkFetch |-> TRUE,
                       response |-> "network",
                       cached |-> ShouldCache(status, type)]
               /\ cacheStorage' =
                      IF ShouldCache(status, type)
                      THEN PutAll(OpenCache(cacheStorage, CACHE_NAME),
                                  CACHE_NAME, {request.url})
                      ELSE cacheStorage
       ELSE /\ fetchResult' =
                   [url |-> request.url, method |-> request.method,
                    intercepted |-> TRUE, networkFetch |-> TRUE,
                    response |->
                        IF /\ request.destination = "document"
                           /\ CachesMatch(cacheStorage,
                                          Resolve("/index.html"))
                        THEN "index" ELSE "none",
                    cached |-> FALSE]
            /\ UNCHANGED cacheStorage
    /\ UNCHANGED <<swState, skipWaitingCalled, pendingDeletes,
                   clientsClaimed, online, outsideWorker>>

NextWorker ==
    \/ InstallEvent
    \/ AddAllResolves
    \/ AddAllRejects
    \/ SkipWaiting
    \/ ActivateEvent
    \/ \E cacheName \in OldCacheNames \cup {CACHE_NAME} :
           DeleteSettles(cacheName)
    \/ ClientsClaim
    \/ \E reachable \in BOOLEAN : SetOnline(reachable)
    \/ \E request \in Requests, status \in {200, 404},
          mode \in {"cors", "opaque"} :
           FetchEvent(request, status, mode)

WorkerSpec == Init /\ [][NextWorker]_vars

\* Some fetch event for the request takes place.
Fetched(request) ==
    \E status \in {200, 404}, mode \in {"cors", "opaque"} :
        FetchEvent(request, status, mode)

\* Every URL of urlsToCache is stored in the cache named CACHE_NAME.
ListCached(storage) ==
    /\ CACHE_NAME \in DOMAIN storage
    /\ Range(urlsToCache) \subseteq storage[CACHE_NAME]

\* C21: with the list cached and the network down, a GET request for a URL
\* of the list, same-origin or external, is answered by the worker from the
\* cache.
C21_ListedUrlsServedOffline ==
    [][\A request \in Requests :
           (/\ Fetched(request)
            /\ request.method = "GET"
            /\ request.url \in Range(urlsToCache)
            /\ ListCached(cacheStorage)
            /\ ~online)
           => (/\ fetchResult'.intercepted
               /\ fetchResult'.response = "cache"
               /\ ~fetchResult'.networkFetch)]_vars

\* C23: when clients are claimed, the deletions have all settled, no cache
\* of another name is left, and no step of the worker deletes the cache
\* named CACHE_NAME.
C23_ActivateKeepsCurrentCache ==
    [][/\ (clientsClaimed' /\ ~clientsClaimed) =>
              /\ pendingDeletes = {}
              /\ DOMAIN cacheStorage' \subseteq {CACHE_NAME}
       /\ CACHE_NAME \in DOMAIN cacheStorage =>
              /\ CACHE_NAME \in DOMAIN cacheStorage'
              /\ cacheStorage[CACHE_NAME] \subseteq
                     cacheStorage'[CACHE_NAME]]_vars

\* Activation has completed after an install that cached the list: the two
\* old caches are gone and the current one holds the list.
C23_Witness ==
    /\ clientsClaimed
    /\ swState = "activated"
    /\ DOMAIN cacheStorage = {CACHE_NAME}
    /\ ListCached(cacheStorage)

\* C24: whenever the install step has completed, every URL of urlsToCache
\* is in the cache named CACHE_NAME.
C24_InstalledMeansCached ==
    swState \in {"installed", "activating", "activated"} =>
        ListCached(cacheStorage)

\* C25: the worker answers only same-origin GET requests; a cache hit uses
\* no network; a response is stored only when its status is 200 and its
\* type basic; with the network down a document request gets the cached
\* /index.html and any other request no response.
C25_FetchHandler ==
    [][\A request \in Requests, status \in {200, 404},
          mode \in {"cors", "opaque"} :
           FetchEvent(request, status, mode) =>
               /\ fetchResult'.intercepted =>
                      (request.method = "GET" /\ SameOrigin(request.url))
               /\ fetchResult'.response = "cache" =>
                      ~fetchResult'.networkFetch
               /\ cacheStorage' # cacheStorage =>
                      (/\ status = 200
                       /\ SameOrigin(request.url))
               /\ (/\ fetchResult'.intercepted
                   /\ fetchResult'.networkFetch
                   /\ ~online) =>
                      fetchResult'.response =
                          IF /\ request.destination = "document"
                             /\ CachesMatch(cacheStorage,
                                            Resolve("/index.html"))
                          THEN "index" ELSE "none"]_vars

(***************************************************************************)
(* The two wizards: the template wizard (nextWizardStep,                   *)
(* previousWizardStep) and the data type wizard (selectUseCase,            *)
(* nextDataTypeStep, previousDataTypeStep, generateRecommendation).        *)
(***************************************************************************)
WizardSteps == 4

DataTypeSteps == 3

\* dataset.case of the use-case cards, as the pieces around the hyphens.
UseCases ==
    {<<"analog", "-", "input">>, <<"digital", "-", "input">>,
     <<"analog", "-", "output">>}

\* useCase.replace('-', ' '): the first hyphen becomes a space.
RECURSIVE ReplaceFirstHyphen(_)
ReplaceFirstHyphen(pieces) ==
    IF pieces = <<>> THEN <<>>
    ELSE IF Head(pieces) = "-" THEN <<" ">> \o Tail(pieces)
    ELSE <<Head(pieces)>> \o ReplaceFirstHyphen(Tail(pieces))

\* The keys of the recommendations table of generateRecommendation.
RecommendationKeys ==
    {<<"analog", "-", "input">>, <<"digital", "-", "input">>}

\* recommendations[useCase].type
RecommendationType(useCase) ==
    IF useCase = <<"analog", "-", "input">> THEN "REAL" ELSE "BOOL"

\* if (step < last) step++
StepAfterNext_OneMore(step, last) ==
    IF step < last + 1 THEN step + 1 ELSE step

StepAfterNext(step, last) ==
    IF step < last THEN step + 1 ELSE step

\* if (step > 1) step--
StepAfterPrevious(step) ==
    IF step > 1 THEN step - 1 ELSE step

\* click on #nextStep
NextWizardStep ==
    /\ currentWizardStep' = StepAfterNext(currentWizardStep, WizardSteps)
    /\ UNCHANGED <<currentDataTypeStep, selectedUseCase, recommendedType>>
    /\ UNCHANGED <<appVars, workerVars, toastVars, debounceVars,
                   registryVars, sanitizeVars>>

\* click on #prevStep
PreviousWizardStep ==
    /\ currentWizardStep' = StepAfterPrevious(currentWizardStep)
    /\ UNCHANGED <<currentDataTypeStep, selectedUseCase, recommendedType>>
    /\ UNCHANGED <<appVars, workerVars, toastVars, debounceVars,
                   registryVars, sanitizeVars>>

\* click on a use-case card
SelectUseCase(useCase) ==
    /\ selectedUseCase' = useCase
    /\ toast' = [message |-> <<"Selected ">> \o ReplaceFirstHyphen(useCase)
                                \o <<" use case">>,
                 type |-> "info"]
    /\ UNCHANGED <<currentWizardStep, currentDataTypeStep, recommendedType>>
    /\ UNCHANGED <<now, dataVars, configsGrid, configSearch, download,
                   attributes, validatorVars, timerVars, catalogVars>>
    /\ UNCHANGED <<workerVars, toastVars, debounceVars, registryVars,
                   sanitizeVars>>

\* click on #dt-nextStep; generateRecommendation() on reaching the last step
NextDataTypeStep ==
    /\ currentDataTypeStep' = StepAfterNext(currentDataTypeStep, DataTypeSteps)
    /\ IF /\ currentDataTypeStep < DataTypeSteps
          /\ currentDataTypeStep' = DataTypeSteps
          /\ selectedUseCase \in RecommendationKeys
       THEN /\ recommendedType' = RecommendationType(selectedUseCase)
            /\ toast' = [message |-> <<"Recommendation generated">>,
                         type |-> "success"]
       ELSE UNCHANGED <<recommendedType, toast>>
    /\ UNCHANGED <<currentWizardStep, selectedUseCase>>
    /\ UNCHANGED <<now, dataVars, configsGrid, configSearch, download,
                   attributes, validatorVars, timerVars, catalogVars>>
    /\ UNCHANGED <<workerVars, toastVars, debounceVars, registryVars,
                   sanitizeVars>>

\* click on #dt-prevStep
PreviousDataTypeStep ==
    /\ currentDataTypeStep' = StepAfterPrevious(currentDataTypeStep)
    /\ UNCHANGED <<currentWizardStep, selectedUseCase, recommendedType>>
    /\ UNCHANGED <<appVars, workerVars, toastVars, debounceVars,
                   registryVars, sanitizeVars>>

NextWizard ==
    \/ NextWizardStep
    \/ PreviousWizardStep
    \/ \E useCase \in UseCases : SelectUseCase(useCase)
    \/ NextDataTypeStep
    \/ PreviousDataTypeStep

WizardSpec == Init /\ [][NextWizard]_vars

\* C22: both step counters start at 1 and stay in range (1..4 for the
\* template wizard, 1..3 for the data type wizard); a next click adds exactly
\* 1 except at the last step, where it changes nothing; a previous click
\* subtracts exactly 1 except at step 1, where it changes nothing.
C22_WizardIsLinearAndBounded ==
    /\ currentWizardStep = 1
    /\ currentDataTypeStep = 1
    /\ [](/\ currentWizardStep \in 1..4
          /\ currentDataTypeStep \in 1..3)
    /\ [][/\ NextWizardStep =>
               currentWizardStep' = IF currentWizardStep = 4 THEN 4
                                    ELSE currentWizardStep + 1
          /\ PreviousWizardStep =>
               currentWizardStep' = IF currentWizardStep = 1 THEN 1
                                    ELSE currentWizardStep - 1
          /\ NextDataTypeStep =>
               currentDataTypeStep' = IF currentDataTypeStep = 3 THEN 3
                                      ELSE currentDataTypeStep + 1
          /\ PreviousDataTypeStep =>
               currentDataTypeStep' = IF currentDataTypeStep = 1 THEN 1
                                      ELSE currentDataTypeStep - 1]_vars

\* Both wizards stand on their last step, the data type wizard having
\* produced a recommendation on the way.
C22_Witness ==
    /\ currentWizardStep = 4
    /\ currentDataTypeStep = 3
    /\ recommendedType = "BOOL"

(***************************************************************************)
(* The toast and its timers. There is one #toast element; every showToast  *)
(* adds the class 'show' and sets a timer that removes it, and no timer is *)
(* ever cleared. toastTimers holds the timers set and not yet run, in the  *)
(* order of the setTimeout calls, with the time each has left; toastAge is *)
(* the time since the last showToast, counted up to ToastDuration. Time is *)
(* counted in units of 500 ms.                                             *)
(***************************************************************************)
MaxToastTimers == 4

Min(a, b) == IF a < b THEN a ELSE b

HideTimer == [callback |-> "hide", remaining |-> ToastDuration]

ValidationTimer ==
    [callback |-> "runValidation", remaining |-> RunValidationDelay]

\* The timing of showToast: the toast is shown and a hide timer is set.
ShowToastNow(timers) ==
    /\ toastShown' = TRUE
    /\ toastAge' = 0
    /\ toastTimers' = Append(timers, HideTimer)

\* The i-th timer runs now: its time is up, and no timer set earlier is
\* also waiting to run.
TimerDue(i) ==
    /\ i \in 1..Len(toastTimers)
    /\ toastTimers[i].remaining = 0
    /\ \A j \in 1..(i - 1) : toastTimers[j].remaining > 0

\* runValidation(): showToast(..., 'info'); setTimeout(callback, 2000)
RunValidationShown ==
    /\ Len(toastTimers) + 2 <= MaxToastTimers
    /\ \A i \in 1..Len(toastTimers) : toastTimers[i].remaining > 0
    /\ toast' = [message |-> <<"Running validation...">>, type |-> "info"]
    /\ ShowToastNow(toastTimers \o <<ValidationTimer>>)
    /\ download' = NoFile
    /\ UNCHANGED <<now, dataVars, configsGrid, configSearch, attributes,
                   validatorVars, timerVars, catalogVars>>
    /\ UNCHANGED <<wizardVars, workerVars, debounceVars, registryVars,
                   sanitizeVars>>

\* The callback of runValidation: showToast(..., 'success') and
\* loadValidationData().
ValidationTimerRuns(i) ==
    /\ TimerDue(i)
    /\ toastTimers[i].callback = "runValidation"
    /\ toast' = [message |-> <<"Validation completed successfully">>,
                 type |-> "success"]
    /\ ShowToastNow(RemoveAt(toastTimers, i))
    /\ loadValidationData
    /\ download' = NoFile
    /\ UNCHANGED <<now, dataVars, configsGrid, configSearch, attributes,
                   timerVars, catalogVars>>
    /\ UNCHANGED <<wizardVars, workerVars, debounceVars, registryVars,
                   sanitizeVars>>

\* The callback of showToast: toast.classList.remove('show', type)
HideTimerRuns(i) ==
    /\ TimerDue(i)
    /\ toastTimers[i].callback = "hide"
    /\ toastShown' = FALSE
    /\ toastTimers' = RemoveAt(toastTimers, i)
    /\ UNCHANGED toastAge
    /\ UNCHANGED <<appVars, wizardVars, workerVars, debounceVars,
                   registryVars, sanitizeVars>>

\* 500 ms pass; a timer whose time is up runs before more time passes.
TimePasses ==
    /\ \A i \in 1..Len(toastTimers) : toastTimers[i].remaining > 0
    /\ toastTimers # <<>> \/ toastAge < ToastDuration
    /\ toastTimers' =
           [i \in 1..Len(toastTimers) |->
               [toastTimers[i] EXCEPT !.remaining = @ - 1]]
    /\ toastAge' = Min(toastAge + 1, ToastDuration)
    /\ UNCHANGED toastShown
    /\ UNCHANGED <<appVars, wizardVars, workerVars, debounceVars,
                   registryVars, sanitizeVars>>

NextToast ==
    \/ RunValidationShown
    \/ \E i \in 1..MaxToastTimers : ValidationTimerRuns(i)
    \/ \E i \in 1..MaxToastTimers : HideTimerRuns(i)
    \/ TimePasses

ToastSpec == Init /\ [][NextToast]_vars

\* C27: a toast stays visible for the whole 3000 ms after the showToast
\* that showed it; the hide timer of an earlier showToast does not hide it
\* before that.
C27_ToastVisibleForItsDuration ==
    toastAge < ToastDuration => toastShown

(***************************************************************************)
(* sanitizeInput (src/app-production.js). A string is held here as the     *)
(* sequence of its runs of equal characters, each run a character and a    *)
(* count, so that strings of a thousand characters stay small; runs are    *)
(* kept merged and non-empty, which makes equal strings equal values.      *)
(***************************************************************************)
SanitizedLimit == 1000

Run(ch, n) == [ch |-> ch, n |-> n]

JSString(runs) == [jstype |-> "string", value |-> runs]

\* The runs of a string: empty runs dropped, neighbours of one character
\* merged.
RECURSIVE Normalize(_)
Normalize(runs) ==
    IF runs = <<>> THEN <<>>
    ELSE LET h == Head(runs)
             rest == Normalize(Tail(runs))
         IN  IF h.n = 0 THEN rest
             ELSE IF rest # <<>> /\ rest[1].ch = h.ch
             THEN <<Run(h.ch, h.n + rest[1].n)>> \o Tail(rest)
             ELSE <<h>> \o rest

\* s.length
RECURSIVE Length(_)
Length(runs) ==
    IF runs = <<>> THEN 0 ELSE Head(runs).n + Length(Tail(runs))

HasChar(runs, ch) == \E i \in 1..Len(runs) : runs[i].ch = ch

\* .replace(/<[^>]*>/g, ''): from left to right, a '<' that has a '>'
\* somewhere after it opens a match, which runs to the first '>' after it.
RECURSIVE RemoveTags(_, _)
RemoveTags(runs, inside) ==
    IF runs = <<>> THEN <<>>
    ELSE LET h == Head(runs) IN
         IF inside
         THEN IF h.ch = ">"
              THEN <<Run(">", h.n - 1)>> \o RemoveTags(Tail(runs), FALSE)
              ELSE RemoveTags(Tail(runs), TRUE)
         ELSE IF h.ch = "<" /\ HasChar(Tail(runs), ">")
              THEN RemoveTags(Tail(runs), TRUE)
              ELSE <<h>> \o RemoveTags(Tail(runs), FALSE)

DangerousCharacters == {"<", ">", "\"", "'"}

\* .replace(/[<>\"']/g, '')
RemoveDangerous(runs) ==
    SelectSeq(runs, LAMBDA r : r.ch \notin DangerousCharacters)

\* .trim()
Trim(runs) ==
    LET kept == {i \in 1..Len(runs) : ~IsWhitespace(runs[i].ch)} IN
    IF kept = {} THEN <<>>
    ELSE SubSeq(runs,
                CHOOSE i \in kept : \A j \in kept : i <= j,
                CHOOSE i \in kept : \A j \in kept : i >= j)

\* .substring(0, count)
Substring(runs, count) ==
    LET RECURSIVE Take(_, _)
        Take(rs, c) ==
            IF rs = <<>> \/ c = 0 THEN <<>>
            ELSE IF Head(rs).n <= c
            THEN <<Head(rs)>> \o Take(Tail(rs), c - Head(rs).n)
            ELSE <<Run(Head(rs).ch, c)>>
    IN  Take(runs, count)

sanitizeInput(input) ==
    IF input.jstype # "string" THEN input
    ELSE JSString(
             Substring(
                 Trim(Normalize(RemoveDangerous(
                     Normalize(RemoveTags(input.value, FALSE))))),
                 SanitizedLimit))

\* The inputs: a long run of one letter, of a length around the limit,
\* followed by up to two more characters; and values that are not strings.
PaddingLengths == {0, 998, 999, 1000}

TailChars == {" ", "b", "<", ">", "\"", "'"}

Tails ==
    {<<>>} \cup {<<c>> : c \in TailChars}
           \cup {<<c, d>> : c \in TailChars, d \in TailChars}

StringInputs ==
    {Normalize(<<Run("a", n)>>
               \o [i \in 1..Len(tail) |-> Run(tail[i], 1)]) :
        n \in PaddingLengths, tail \in Tails}

SanitizeInputs ==
    {JSString(s) : s \in StringInputs}
        \cup {JSNumber(42), [jstype |-> "null", value |-> 0],
              [jstype |-> "boolean", value |-> 1]}

\* The application as constructed, before a value is handed to
\* sanitizeInput.
SanitizeInit ==
    /\ now = 0
    /\ templateName = <<>>
    /\ templateCategory = <<>>
    /\ templateDescription = <<>>
    /\ attributeRows = <<>>
    /\ savedConfigs = <<>>
    /\ configsGrid = <<>>
    /\ configSearch = <<>>
    /\ toast = NoToast
    /\ download = NoFile
    /\ attributes = <<>>
    /\ validationResults = ValidationData
    /\ criticalIssues = CountStatus(ValidationData, "error")
    /\ warningsCount = CountStatus(ValidationData, "warning")
    /\ validationScore = Score(CountStatus(ValidationData, "error"),
                               CountStatus(ValidationData, "warning"))
    /\ fixedIssues = SuccessCount
    /\ pendingTimeouts = <<>>
    /\ buttonLoading = FALSE
    /\ referenceGrid = <<>>
    /\ activeFilter = "all"
    /\ referenceSearch = <<>>
    /\ WizardInit
    /\ WorkerInit
    /\ ToastInit
    /\ DebounceInit
    /\ RegistryInit
    /\ userInput \in SanitizeInputs
    /\ sanitized = NotSanitized

\* sanitized = sanitizeInput(userInput)
SanitizeInput ==
    /\ sanitized.jstype = "pending"
    /\ sanitized' = sanitizeInput(userInput)
    /\ UNCHANGED userInput
    /\ UNCHANGED <<appVars, wizardVars, workerVars, toastVars, debounceVars,
                   registryVars>>

\* The result is handed to sanitizeInput once more.
SanitizeAgain ==
    /\ sanitized.jstype # "pending"
    /\ userInput' = sanitized
    /\ sanitized' = sanitizeInput(sanitized)
    /\ UNCHANGED <<appVars, wizardVars, workerVars, toastVars, debounceVars,
                   registryVars>>

NextSanitize ==
    \/ SanitizeInput
    \/ SanitizeAgain

SanitizeSpec == SanitizeInit /\ [][NextSanitize]_vars

\* C30: the result of sanitizeInput for a string is a string of at most
\* 1000 characters without <, >, double quote or single quote, and handing
\* it to sanitizeInput again returns it unchanged; a value that is not a
\* string is returned as it is.
C30_SanitizeBoundedCleanIdempotent ==
    sanitized.jstype # "pending" =>
        IF userInput.jstype = "string"
        THEN /\ sanitized.jstype = "string"
             /\ Length(sanitized.value) <= 1000
             /\ \A i \in 1..Len(sanitized.value) :
                    sanitized.value[i].ch \notin {"<", ">", "\"", "'"}
             /\ sanitizeInput(sanitized) = sanitized
        ELSE sanitized = userInput

\* The same without the second application: length and characters of the
\* result, and values that are not strings.
SanitizeBoundedClean ==
    sanitized.jstype # "pending" =>
        IF userInput.jstype = "string"
        THEN /\ sanitized.jstype = "string"
             /\ Length(sanitized.value) <= 1000
             /\ \A i \in 1..Len(sanitized.value) :
                    sanitized.value[i].ch \notin {"<", ">", "\"", "'"}
        ELSE sanitized = userInput

(***************************************************************************)
(* Debounced search (initializeSearch, performSearch). Each search input   *)
(* has its own searchTimeout; searchTimeout[field] holds the time left of  *)
(* the timers that the input's handler has set and that have neither run   *)
(* nor been cleared, oldest first, the variable of the source naming the   *)
(* last of them. Time is counted in units of 100 ms.                       *)
(***************************************************************************)
MaxInputs == 3

SearchValues == {<<>>, <<"a">>, <<"a", "<">>}

\* The runs of a string given by its characters.
Runs(chars) == Normalize([i \in 1..Len(chars) |-> Run(chars[i], 1)])

\* Variant: the timer of the earlier event is left to run.
ClearTimeout_Keeps(timers) == timers

\* clearTimeout(searchTimeout): the last timer set, if it has not run.
ClearTimeout(timers) ==
    IF timers = <<>> THEN <<>> ELSE SubSeq(timers, 1, Len(timers) - 1)

NoTimerDue ==
    \A field \in SearchFields :
        \A i \in 1..Len(searchTimeout[field]) : searchTimeout[field][i] > 0

\* input event on a search input: the handler of initializeSearch.
InputEvent(field, value) ==
    /\ inputCount < MaxInputs
    /\ NoTimerDue
    /\ inputCount' = inputCount + 1
    /\ searchField' = [searchField EXCEPT ![field] = value]
    /\ searchTimeout' =
           [searchTimeout EXCEPT
               ![field] = Append(ClearTimeout(@), DebounceDelay)]
    /\ sinceInput' = [sinceInput EXCEPT ![field] = 0]
    /\ UNCHANGED lastQuery
    /\ UNCHANGED <<appVars, wizardVars, workerVars, toastVars, registryVars,
                   sanitizeVars>>

\* The timer of an input runs: performSearch(e.target.value).
SearchTimerRuns(field) ==
    /\ searchTimeout[field] # <<>>
    /\ Head(searchTimeout[field]) = 0
    /\ searchTimeout' = [searchTimeout EXCEPT ![field] = Tail(@)]
    /\ lastQuery' =
           [runs |-> lastQuery.runs + 1,
            field |-> field,
            query |-> searchField[field],
            sanitizedQuery |->
                sanitizeInput(JSString(Runs(searchField[field]))).value]
    /\ UNCHANGED <<searchField, sinceInput, inputCount>>
    /\ UNCHANGED <<appVars, wizardVars, workerVars, toastVars, registryVars,
                   sanitizeVars>>

\* 100 ms pass; a timer whose time is up runs before more time passes.
DebounceTimePasses ==
    /\ NoTimerDue
    /\ \E field \in SearchFields :
           searchTimeout[field] # <<>> \/ sinceInput[field] < DebounceDelay
    /\ searchTimeout' =
           [field \in SearchFields |->
               [i \in 1..Len(searchTimeout[field]) |->
                   searchTimeout[field][i] - 1]]
    /\ sinceInput' =
           [field \in SearchFields |->
               Min(sinceInput[field] + 1, DebounceDelay)]
    /\ UNCHANGED <<searchField, lastQuery, inputCount>>
    /\ UNCHANGED <<appVars, wizardVars, workerVars, toastVars, registryVars,
                   sanitizeVars>>

NextDebounce ==
    \/ \E field \in SearchFields, value \in SearchValues :
           InputEvent(field, value)
    \/ \E field \in SearchFields : SearchTimerRuns(field)
    \/ DebounceTimePasses

DebounceSpec == Init /\ [][NextDebounce]_vars

\* A timer whose time is up leaves the timers of its input: the step of
\* SearchTimerRuns, seen on searchTimeout alone.
DueTimerRuns ==
    \E field \in SearchFields :
        /\ searchTimeout[field] # <<>>
        /\ Head(searchTimeout[field]) = 0
        /\ searchTimeout' = [searchTimeout EXCEPT ![field] = Tail(@)]

\* Time passes, and the event loop runs a timer whose time is up.
DebounceLiveSpec ==
    /\ DebounceSpec
    /\ WF_vars(DebounceTimePasses)
    /\ WF_searchTimeout(DueTimerRuns)

\* The last input event of the field is waiting for its search.
SearchPending(field) == searchTimeout[field] # <<>>

\* performSearch has just run for the field, with the field's value.
Searched(field) ==
    /\ searchTimeout[field] = <<>>
    /\ lastQuery.runs > 0
    /\ lastQuery.field = field
    /\ lastQuery.query = searchField[field]

\* C28: of a burst of input events on one search field, each less than
\* 300 ms after the one before, only the last leads to performSearch: the
\* field never has more than one timer waiting, and that timer runs 300 ms
\* after the field's last event; performSearch runs only then, with the
\* value of that event, and does not run again before the next event; and
\* after every burst a search does run.
C28_DebouncedSearch ==
    /\ [](\A field \in SearchFields :
             /\ Len(searchTimeout[field]) <= 1
             /\ SearchPending(field) =>
                    searchTimeout[field][1] = 3 - sinceInput[field])
    /\ [][lastQuery'.runs # lastQuery.runs =>
             /\ lastQuery'.runs = lastQuery.runs + 1
             /\ sinceInput[lastQuery'.field] = 3
             /\ lastQuery'.query = searchField[lastQuery'.field]
             /\ searchTimeout'[lastQuery'.field] = <<>>]_vars
    /\ \A field \in SearchFields :
           SearchPending(field) ~> Searched(field)

\* A burst of three events on one field has ended in one search, for the
\* value of the third.
C28_Witness ==
    /\ inputCount = 3
    /\ lastQuery.runs = 1
    /\ lastQuery.field = "search"
    /\ lastQuery.query = <<"a", "<">>
    /\ lastQuery.sanitizedQuery = <<Run("a", 1)>>
    /\ searchField["filter"] = <<>>
    /\ sinceInput["filter"] = 3
    /\ ~SearchPending("search")

(***************************************************************************)
(* The listener registry of src/app-production.js. eventListeners is the   *)
(* Map as the set of its entries, one for each key; attachedHandlers holds *)
(* what addEventListener has attached and removeEventListener has not      *)
(* removed. Every call of addSecureEventListener creates a new wrapped     *)
(* handler, named by its number.                                           *)
(***************************************************************************)
MaxListeners == 3

\* Elements the application attaches listeners to; document has no tagName.
Elements ==
    {[tagName |-> "BUTTON", name |-> "mobileMenuToggle"],
     [tagName |-> "BUTTON", name |-> "orangeHamburger"],
     [tagName |-> "", name |-> "document"]}

EventTypes == {"click", "keydown"}

\* Math.random().toString(36).substr(2, 9): any text of digits and letters
\* can come out, and any text can come out again.
RandomParts == {"4fzzzxjyl", "k2mnb81qa"}

\* `${element.tagName || 'unknown'}_${event}_${random}`
ListenerId(element, event, random) ==
    <<IF element.tagName = "" THEN "unknown" ELSE element.tagName,
      "_", event, "_", random>>

ListenerIds ==
    {ListenerId(element, event, random) :
        element \in Elements, event \in EventTypes, random \in RandomParts}

Attachment(element, event, handler) ==
    [element |-> element, event |-> event, handler |-> handler]

\* Map.prototype.set: the entry of the key is replaced.
MapSet(map, key, info) ==
    {entry \in map : entry.listenerId # key}
        \cup {[listenerId |-> key, info |-> info]}

\* addSecureEventListener(element, event, handler)
AddSecureEventListener(element, event, random) ==
    LET wrappedHandler == handlersCreated + 1
        listenerId == ListenerId(element, event, random)
    IN  /\ handlersCreated < MaxListeners
        /\ handlersCreated' = wrappedHandler
        /\ eventListeners' =
               MapSet(eventListeners, listenerId,
                      Attachment(element, event, wrappedHandler))
        /\ attachedHandlers' =
               attachedHandlers
                   \cup {Attachment(element, event, wrappedHandler)}
        /\ UNCHANGED <<appVars, wizardVars, workerVars, toastVars,
                       debounceVars, sanitizeVars>>

\* removeSecureEventListener(listenerId)
RemoveSecureEventListener(listenerId) ==
    /\ LET found == {entry \in eventListeners :
                        entry.listenerId = listenerId}
       IN  /\ attachedHandlers' =
                  attachedHandlers \ {entry.info : entry \in found}
           /\ eventListeners' = eventListeners \ found
    /\ UNCHANGED handlersCreated
    /\ UNCHANGED <<appVars, wizardVars, workerVars, toastVars, debounceVars,
                   sanitizeVars>>

\* destroy(): removeAllEventListeners(), then eventListeners.clear()
Destroy ==
    /\ attachedHandlers' =
           attachedHandlers \ {entry.info : entry \in eventListeners}
    /\ eventListeners' = {}
    /\ UNCHANGED handlersCreated
    /\ UNCHANGED <<appVars, wizardVars, workerVars, toastVars, debounceVars,
                   sanitizeVars>>

NextRegistry ==
    \/ \E element \in Elements, event \in EventTypes,
          random \in RandomParts :
           AddSecureEventListener(element, event, random)
    \/ \E listenerId \in ListenerIds : RemoveSecureEventListener(listenerId)
    \/ Destroy

RegistrySpec == Init /\ [][NextRegistry]_vars

\* C29: the handlers attached through addSecureEventListener are exactly
\* the handlers recorded in eventListeners, each under a key of its own;
\* so after destroy(), which empties the map, none of them is attached.
C29_RegistryRecordsAttached ==
    /\ attachedHandlers = {entry.info : entry \in eventListeners}
    /\ Cardinality(eventListeners) = Cardinality(attachedHandlers)

====
